---- MODULE Spec2Model ----
(***************************************************************************)
(* Bluetooth Mesh access layer (subsys/bluetooth/mesh/access.c) and the    *)
(* Large Composition Data Server (large_comp_data_srv.c): the model        *)
(* relation graph, the composition data page serializers and the store of  *)
(* the high pages 128..130.                                                *)
(***************************************************************************)
EXTENDS Integers, Sequences, FiniteSets, TLC

(***************************************************************************)
(* Program constants                                                       *)
(***************************************************************************)
RELATION_TYPE_EXT == 255

BT_MESH_MIC_SHORT == 4

CONFIG_BT_MESH_CRPL == 5

\* CONFIG_BT_MESH_MODEL_EXTENSION_LIST_SIZE: the capacity of mod_rel_list
MOD_REL_LIST_SIZE == 3

Min(x, y) == IF x < y THEN x ELSE y

Abs(x) == IF x < 0 THEN -x ELSE x

(***************************************************************************)
(* The registered composition (dev_comp): five elements; element 0 holds   *)
(* the Configuration Server (0x0000), the Large Composition Data Server    *)
(* (0x0012) and one vendor model.  Fixed after bt_mesh_comp_register.      *)
(***************************************************************************)
dev_comp ==
    [cid |-> 427, pid |-> 2, vid |-> 3,
     elem |-> << [loc |-> 1, models |-> <<0, 18>>, vnd_models |-> << <<89, 1>> >>],
                 [loc |-> 2, models |-> <<4096>>, vnd_models |-> << >>],
                 [loc |-> 3, models |-> <<4098>>, vnd_models |-> << >>],
                 [loc |-> 4, models |-> <<4864>>, vnd_models |-> << >>],
                 [loc |-> 5, models |-> <<4866, 4867>>, vnd_models |-> << >>] >>]

elem_count == Len(dev_comp.elem)

\* element i (0-based, as in the source)
Elem(i) == dev_comp.elem[i + 1]

model_count(i) == Len(Elem(i).models)

vnd_model_count(i) == Len(Elem(i).vnd_models)

\* a model is named by its runtime slot: rt->elem_idx, rt->mod_idx and the list it is in
M(e, i) == [elem |-> e, vnd |-> FALSE, idx |-> i]

V(e, i) == [elem |-> e, vnd |-> TRUE, idx |-> i]

NULL == [elem |-> -1, vnd |-> FALSE, idx |-> -1]

Models ==
    UNION {{M(e, i) : i \in 0..(model_count(e) - 1)} \cup
           {V(e, i) : i \in 0..(vnd_model_count(e) - 1)} : e \in 0..(elem_count - 1)}

\* the calls the model initialisers of the application make: <<extending, base>>
ExtendCalls ==
    { <<M(0, 1), M(0, 0)>>, <<M(3, 0), M(0, 0)>>, <<M(4, 0), M(4, 1)>>,
      <<M(4, 0), M(0, 1)>>, <<V(0, 0), M(1, 0)>> }

\* <<corresponding, base>>
CorrespondCalls ==
    { <<M(4, 0), M(1, 0)>>, <<M(2, 0), M(3, 0)>>, <<V(0, 0), M(1, 0)>> }

VARIABLES
    next,          \* rt->next of every model (NULL when never linked)
    flags,         \* rt->flags of every model, as a set of flag names
    mod_rel_list,  \* the relation table
    settings,      \* the value the settings backend keeps under each high-page path
    registered,    \* bt_mesh_comp_register has returned: the model initialisers are done
    n_calls,       \* the number of extend and correspond calls made so far
    ext_calls,     \* history: the pairs passed to bt_mesh_model_extend so far
    cor_calls,     \* history: the pairs registered by bt_mesh_model_correspond so far
    last_set,      \* history: per high page, the last bt_mesh_comp_data_set call
    rd,            \* the Large Composition Data read a client has in progress
    req,           \* the request message in flight, not yet handled
    last_op,       \* the last operation and what it returned
    groups,        \* mod->groups of every model: the group addresses it subscribes to
    uuids,         \* mod->uuids of every model: the label UUIDs it subscribes to
    msg_cb,        \* the raw-message callback is registered
    n_subs,        \* the number of subscriptions added so far
    pub,           \* mod->pub of the model that publishes
    timer,         \* the deadline of pub->timer, NoTimer when it is not pending
    tx,            \* the SDUs the transport has not sent yet: the uptime each will be sent at
    now,           \* the uptime
    pubh,          \* history: the series of transmissions in progress and the one before
    n_pub,         \* the number of publish calls so far
    suspended,     \* BT_MESH_SUSPENDED of bt_mesh.flags
    conf,          \* mod->keys and mod->groups (as arrays) of the models whose store is followed
    mod_records,   \* the value the settings backend keeps under each model path
    addrs,         \* dev_primary_addr and rt->addr of every element
    rt_idx         \* rt->elem_idx and rt->mod_idx of every model

\* what the message dispatcher reads besides the composition and the rings
runtime == <<groups, uuids, msg_cb, n_subs>>

\* the publication of the model that publishes, and the clock
publication == <<pub, timer, tx, now, pubh, n_pub>>

\* the node besides its composition: suspension, stored configuration, addresses
node == <<suspended, conf, mod_records, addrs, rt_idx>>

vars == <<next, flags, mod_rel_list, settings, registered, n_calls, ext_calls, cor_calls,
          last_set, rd, req, last_op, runtime, publication, node>>

\* the model initialisers make at most this many extend and correspond calls
MaxCalls == 4

EmptyRel == [elem_base |-> 0, idx_base |-> 0, elem_ext |-> 0, idx_ext |-> 0, type |-> 0]

\* the emptiness test of MOD_REL_LIST_FOR_EACH and mod_rel_register: the type is not looked at
IsEmptyRel(r) == r.elem_base = 0 /\ r.idx_base = 0 /\ r.elem_ext = 0 /\ r.idx_ext = 0

get_sig_offset(mod) == IF mod.vnd THEN model_count(mod.elem) ELSE 0

IS_MOD_BASE(mod, i, offset) ==
    mod_rel_list[i].elem_base = mod.elem /\ mod_rel_list[i].idx_base = mod.idx + offset

IS_MOD_EXTENSION(mod, i, offset) ==
    mod_rel_list[i].elem_ext = mod.elem /\ mod_rel_list[i].idx_ext = mod.idx + offset

\* the indices MOD_REL_LIST_FOR_EACH visits: up to the first empty record
RECURSIVE RelEndFrom(_)
RelEndFrom(i) ==
    IF i > MOD_REL_LIST_SIZE \/ IsEmptyRel(mod_rel_list[i]) THEN i - 1 ELSE RelEndFrom(i + 1)

MOD_REL_LIST_FOR_EACH == 1..RelEndFrom(1)

\* mod_rel_register: the list after the call and the value returned
RECURSIVE FirstFree(_)
FirstFree(i) ==
    IF i > MOD_REL_LIST_SIZE THEN 0
    ELSE IF IsEmptyRel(mod_rel_list[i]) THEN i ELSE FirstFree(i + 1)

mod_rel_register(base, ext, type) ==
    LET extension == [elem_base |-> base.elem,
                      idx_base |-> base.idx + get_sig_offset(base),
                      elem_ext |-> ext.elem,
                      idx_ext |-> ext.idx + get_sig_offset(ext),
                      type |-> type]
        i == FirstFree(1)
    IN  IF i = 0 THEN [list |-> mod_rel_list, ret |-> "ENOMEM"]
        ELSE [list |-> [mod_rel_list EXCEPT ![i] = extension], ret |-> "OK"]

\* "Check if a's list contains b": the loop leaves before looking at the model whose next is a
RECURSIVE ListContains(_, _, _)
ListContains(it, a, b) ==
    IF it = NULL \/ next[it] = a THEN FALSE
    ELSE IF it = b THEN TRUE
    ELSE ListContains(next[it], a, b)

\* a merge that links a to the list of b and leaves the link of b alone
MergeLists_one_link(a, b) ==
    [next EXCEPT ![a] = IF next[b] # NULL THEN next[b] ELSE b]

\* "Merge lists"
MergeLists(a, b) ==
    LET a_next == next[a]
        b_next == next[b]
    IN  [next EXCEPT ![b] = IF a_next # NULL THEN a_next ELSE a,
                     ![a] = IF b_next # NULL THEN b_next ELSE b]

\* bt_mesh_model_extend(extending_mod = a, base_mod = b)
bt_mesh_model_extend(a, b) ==
    /\ flags' = [flags EXCEPT ![b] = @ \cup {"EXTENDED"}]
    /\ ext_calls' = ext_calls \cup {<<a, b>>}
    /\ n_calls' = n_calls + 1
    /\ UNCHANGED <<cor_calls, settings, registered, last_set, rd, req, runtime, publication, node>>
    /\ IF a = b
       THEN /\ UNCHANGED <<next, mod_rel_list>>
            /\ last_op' = [op |-> "extend", a |-> a, b |-> b, ret |-> "OK"]
       ELSE LET reg == mod_rel_register(b, a, RELATION_TYPE_EXT)
            IN  /\ next' = IF ListContains(a, a, b) THEN next ELSE MergeLists(a, b)
                /\ mod_rel_list' = reg.list
                /\ last_op' = [op |-> "extend", a |-> a, b |-> b, ret |-> reg.ret]

\* the scan of bt_mesh_model_correspond: the id to register
RECURSIVE CorScan(_, _, _, _)
CorScan(i, cor_id, corresponding_mod, base_mod) ==
    IF i > MOD_REL_LIST_SIZE \/ IsEmptyRel(mod_rel_list[i]) THEN cor_id
    ELSE LET t == mod_rel_list[i].type
             seen == IF t < RELATION_TYPE_EXT /\ t > cor_id THEN t ELSE cor_id
         IN  IF /\ \/ IS_MOD_BASE(base_mod, i, get_sig_offset(base_mod))
                   \/ IS_MOD_EXTENSION(base_mod, i, get_sig_offset(base_mod))
                   \/ IS_MOD_BASE(corresponding_mod, i, get_sig_offset(corresponding_mod))
                   \/ IS_MOD_EXTENSION(corresponding_mod, i, get_sig_offset(corresponding_mod))
                /\ t < RELATION_TYPE_EXT
             THEN t
             ELSE CorScan(i + 1, seen, corresponding_mod, base_mod)

\* bt_mesh_model_correspond(corresponding_mod, base_mod)
bt_mesh_model_correspond(corresponding_mod, base_mod) ==
    LET reg == mod_rel_register(base_mod, corresponding_mod,
                                CorScan(1, 0, corresponding_mod, base_mod))
    IN  /\ mod_rel_list' = reg.list
        /\ cor_calls' = IF reg.ret = "OK"
                        THEN cor_calls \cup {<<corresponding_mod, base_mod>>}
                        ELSE cor_calls
        /\ last_op' = [op |-> "correspond", a |-> corresponding_mod, b |-> base_mod,
                       ret |-> reg.ret]
        /\ n_calls' = n_calls + 1
        /\ UNCHANGED <<next, flags, ext_calls, settings, registered, last_set, rd, req,
                       runtime, publication, node>>

(***************************************************************************)
(* Serialisation.  A buffer being filled is the record                     *)
(*   [out  |-> the bytes appended so far,                                  *)
(*    room |-> net_buf_simple_tailroom(buf),                               *)
(*    off  |-> *offset, the bytes of the page still to skip]               *)
(***************************************************************************)
LE16(v) == <<v % 256, (v \div 256) % 256>>

NewBuf(room, offset) == [out |-> << >>, room |-> room, off |-> offset]

\* the tailroom of a buffer no page of the model fills
Unlimited == 65535

data_buf_add_mem_offset(w, data) ==
    IF w.off >= Len(data)
    THEN [w EXCEPT !.off = @ - Len(data)]
    ELSE LET len == Min(w.room, Len(data) - w.off)
         IN  [out |-> w.out \o SubSeq(data, w.off + 1, w.off + len),
              room |-> w.room - len,
              off |-> 0]

data_buf_add_le16_offset(w, val) == data_buf_add_mem_offset(w, LE16(val))

data_buf_add_u8_offset(w, val) == data_buf_add_mem_offset(w, <<val % 256>>)

bt_mesh_comp_elem_size(i) == 4 + (model_count(i) * 2) + (vnd_model_count(i) * 4)

\* comp_add_model over the SIG models j.. of element i, then over its vendor models
RECURSIVE Page0SigModels(_, _, _)
Page0SigModels(w, i, j) ==
    IF j > model_count(i) THEN w
    ELSE Page0SigModels(data_buf_add_le16_offset(w, Elem(i).models[j]), i, j + 1)

RECURSIVE Page0VndModels(_, _, _)
Page0VndModels(w, i, j) ==
    IF j > vnd_model_count(i) THEN w
    ELSE Page0VndModels(
             data_buf_add_le16_offset(
                 data_buf_add_le16_offset(w, Elem(i).vnd_models[j][1]),
                 Elem(i).vnd_models[j][2]),
             i, j + 1)

\* comp_add_elem: the buffer after the call and whether it returned -ENOBUFS
comp_add_elem(w, i, allow_partial_elems) ==
    LET elem_size == bt_mesh_comp_elem_size(i)
    IN  IF w.off >= elem_size
        THEN [w |-> [w EXCEPT !.off = @ - elem_size], err |-> FALSE]
        ELSE IF \/ (~allow_partial_elems /\
                    w.room < (elem_size - w.off) + BT_MESH_MIC_SHORT)
                \/ w.room <= 0
        THEN [w |-> w, err |-> TRUE]
        ELSE LET w1 == data_buf_add_le16_offset(w, Elem(i).loc)
                 w2 == data_buf_add_u8_offset(w1, model_count(i))
                 w3 == data_buf_add_u8_offset(w2, vnd_model_count(i))
             IN  [w |-> Page0VndModels(Page0SigModels(w3, i, 1), i, 1), err |-> FALSE]

\* the loop of bt_mesh_comp_data_get_page_0 over the elements i..: r is what comp_add_elem
\* returned for element i - 1, and the loop ends at the first error
RECURSIVE Page0ElemsAfter(_, _, _)
Page0ElemsAfter(r, i, allow_partial_elems) ==
    IF r.err \/ i >= elem_count THEN r.w
    ELSE Page0ElemsAfter(comp_add_elem(r.w, i, allow_partial_elems), i + 1,
                         allow_partial_elems)

Page0Elems(w, i, allow_partial_elems) ==
    Page0ElemsAfter([w |-> w, err |-> FALSE], i, allow_partial_elems)

\* the features bitmap: relay only (CONFIG_BT_MESH_RELAY)
Page0Feat == 1

bt_mesh_comp_data_get_page_0(w, allow_partial_elems) ==
    LET w1 == data_buf_add_le16_offset(w, dev_comp.cid)
        w2 == data_buf_add_le16_offset(w1, dev_comp.pid)
        w3 == data_buf_add_le16_offset(w2, dev_comp.vid)
        w4 == data_buf_add_le16_offset(w3, CONFIG_BT_MESH_CRPL)
        w5 == data_buf_add_le16_offset(w4, Page0Feat)
    IN  [w |-> Page0Elems(w5, 0, allow_partial_elems), ret |-> "OK"]

\* count_mod_ext: the number of extension records of mod and the offset of largest magnitude
RECURSIVE CountModExt(_, _, _, _, _)
CountModExt(i, mod, sig_offset, extensions, offset_record) ==
    IF i > MOD_REL_LIST_SIZE \/ IsEmptyRel(mod_rel_list[i])
    THEN [extensions |-> extensions, max_offset |-> offset_record]
    ELSE IF IS_MOD_EXTENSION(mod, i, sig_offset) /\ mod_rel_list[i].type = RELATION_TYPE_EXT
    THEN LET offset == mod_rel_list[i].elem_ext - mod_rel_list[i].elem_base
         IN  CountModExt(i + 1, mod, sig_offset, (extensions + 1) % 256,
                         IF Abs(offset) > Abs(offset_record) THEN offset ELSE offset_record)
    ELSE CountModExt(i + 1, mod, sig_offset, extensions, offset_record)

count_mod_ext(mod, sig_offset) == CountModExt(1, mod, sig_offset, 0, 0)

\* is_cor_present: the first correspondence record that names mod
RECURSIVE IsCorPresent(_, _, _)
IsCorPresent(i, mod, sig_offset) ==
    IF i > MOD_REL_LIST_SIZE \/ IsEmptyRel(mod_rel_list[i])
    THEN [present |-> FALSE, cor_id |-> 0]
    ELSE IF /\ (IS_MOD_BASE(mod, i, sig_offset) \/ IS_MOD_EXTENSION(mod, i, sig_offset))
            /\ mod_rel_list[i].type < RELATION_TYPE_EXT
    THEN [present |-> TRUE, cor_id |-> mod_rel_list[i].type]
    ELSE IsCorPresent(i + 1, mod, sig_offset)

is_cor_present(mod, sig_offset) == IsCorPresent(1, mod, sig_offset)

\* prep_model_item_header: the buffer after the header and the count left in *mod_cnt
\* mod_elem_info: the count of extensions, the long-format bit and the correspondence bit
ModElemInfo(c, cor) ==
    ((c.extensions * 4) % 256)
    + (IF c.extensions > 31 \/ c.max_offset > 3 \/ c.max_offset < -4 THEN 2 ELSE 0)
    + (IF cor.present THEN 1 ELSE 0)

\* the header written once count_mod_ext returned c and is_cor_present returned cor
ItemHeader(w, c, cor) ==
    [w |-> IF cor.present
           THEN data_buf_add_u8_offset(data_buf_add_u8_offset(w, ModElemInfo(c, cor)),
                                       cor.cor_id)
           ELSE data_buf_add_u8_offset(w, ModElemInfo(c, cor)),
     ext_mod_cnt |-> c.extensions]

prep_model_item_header(w, mod, sig_offset) ==
    ItemHeader(w, count_mod_ext(mod, sig_offset), is_cor_present(mod, sig_offset))

\* elem_offset of add_items_to_page: the extending model's element less the base's
ElemOffset(mod, i) == mod.elem - mod_rel_list[i].elem_base

\* add_items_to_page: one entry per extension record of mod, short or long entry by entry
RECURSIVE AddItems(_, _, _, _, _)
AddItems(w, i, mod, ext_mod_cnt, sig_offset) ==
    IF i > MOD_REL_LIST_SIZE \/ IsEmptyRel(mod_rel_list[i]) THEN w
    ELSE IF IS_MOD_EXTENSION(mod, i, sig_offset) /\ mod_rel_list[i].type = RELATION_TYPE_EXT
    THEN LET elem_offset == ElemOffset(mod, i)
             mod_idx == mod_rel_list[i].idx_base
         IN  IF ext_mod_cnt < 32 /\ elem_offset < 4 /\ elem_offset > -5
             THEN \* short format
                  LET wrapped == IF elem_offset < 0 THEN elem_offset + 8 ELSE elem_offset
                  IN  AddItems(data_buf_add_u8_offset(w, wrapped + ((mod_idx * 8) % 256)),
                               i + 1, mod, ext_mod_cnt, sig_offset)
             ELSE \* long format
                  LET wrapped == IF elem_offset < 0 THEN elem_offset + 256 ELSE elem_offset
                  IN  AddItems(data_buf_add_u8_offset(
                                   data_buf_add_u8_offset(w, wrapped), mod_idx),
                               i + 1, mod, ext_mod_cnt, sig_offset)
    ELSE AddItems(w, i + 1, mod, ext_mod_cnt, sig_offset)

add_items_to_page(w, mod, ext_mod_cnt, sig_offset) ==
    AddItems(w, 1, mod, ext_mod_cnt, sig_offset)

\* mod_items_size: every record with mod on the extending side is counted, whatever its type
RECURSIVE ModItemsSize(_, _, _, _)
ModItemsSize(i, mod, sig_offset, ext_mod_cnt) ==
    IF ext_mod_cnt = 0 \/ i > MOD_REL_LIST_SIZE \/ IsEmptyRel(mod_rel_list[i]) THEN 0
    ELSE IF IS_MOD_EXTENSION(mod, i, sig_offset)
    THEN LET offset == mod.elem - mod_rel_list[i].elem_base
         IN  (IF ext_mod_cnt < 32 /\ offset < 4 /\ offset > -5 THEN 1 ELSE 2)
             + ModItemsSize(i + 1, mod, sig_offset, ext_mod_cnt)
    ELSE ModItemsSize(i + 1, mod, sig_offset, ext_mod_cnt)

mod_items_size(mod, sig_offset) ==
    ModItemsSize(1, mod, sig_offset, count_mod_ext(mod, sig_offset).extensions)

\* the models of element i in page order: SIG models first, then vendor models
ElemModels(i) ==
    [j \in 1..(model_count(i) + vnd_model_count(i)) |->
        IF j <= model_count(i) THEN M(i, j - 1) ELSE V(i, j - 1 - model_count(i))]

RECURSIVE Page1ModelsSize(_, _)
Page1ModelsSize(i, j) ==
    IF j > Len(ElemModels(i)) THEN 0
    ELSE LET mod == ElemModels(i)[j]
         IN  (IF is_cor_present(mod, get_sig_offset(mod)).present THEN 2 ELSE 1)
             + mod_items_size(mod, get_sig_offset(mod))
             + Page1ModelsSize(i, j + 1)

page1_elem_size(i) == 2 + Page1ModelsSize(i, 1)

\* the model item of one model: header, correspondence id and extension entries
ItemEntries(h, mod) ==
    IF h.ext_mod_cnt # 0
    THEN add_items_to_page(h.w, mod, h.ext_mod_cnt, get_sig_offset(mod))
    ELSE h.w

Page1ModelItem(w, mod) ==
    ItemEntries(prep_model_item_header(w, mod, get_sig_offset(mod)), mod)

RECURSIVE Page1Models(_, _, _)
Page1Models(w, i, j) ==
    IF j > Len(ElemModels(i)) THEN w
    ELSE Page1Models(Page1ModelItem(w, ElemModels(i)[j]), i, j + 1)

RECURSIVE Page1Elems(_, _, _)
Page1Elems(w, i, allow_partial_elems) ==
    IF i >= elem_count THEN w
    ELSE LET elem_size == page1_elem_size(i)
         IN  IF w.off >= elem_size
             THEN Page1Elems([w EXCEPT !.off = @ - elem_size], i + 1, allow_partial_elems)
             ELSE IF \/ (~allow_partial_elems /\
                         w.room < (elem_size - w.off) + BT_MESH_MIC_SHORT)
                     \/ w.room <= 0
             THEN w
             ELSE LET w1 == data_buf_add_u8_offset(w, model_count(i))
                      w2 == data_buf_add_u8_offset(w1, vnd_model_count(i))
                  IN  Page1Elems(Page1Models(w2, i, 1), i + 1, allow_partial_elems)

bt_mesh_comp_data_get_page_1(w, allow_partial_elems) ==
    [w |-> Page1Elems(w, 0, allow_partial_elems), ret |-> "OK"]

\* the registered composition data page 2 (dev_comp2): two records
dev_comp2 ==
    << [id |-> 1, version |-> <<1, 0, 0>>, elem_offset |-> <<0>>, data |-> <<170, 187>>],
       [id |-> 2, version |-> <<1, 1, 0>>, elem_offset |-> <<1, 2>>, data |-> << >>] >>

record_cnt == Len(dev_comp2)

Page2RecordSize(i) == 8 + Len(dev_comp2[i].elem_offset) + Len(dev_comp2[i].data)

RECURSIVE Page2Records(_, _, _)
Page2Records(w, i, allow_partial_elems) ==
    IF i > record_cnt THEN w
    ELSE LET elem_size == Page2RecordSize(i)
             rec == dev_comp2[i]
         IN  IF w.off >= elem_size
             THEN Page2Records([w EXCEPT !.off = @ - elem_size], i + 1, allow_partial_elems)
             ELSE IF \/ (~allow_partial_elems /\
                         w.room < (elem_size - w.off) + BT_MESH_MIC_SHORT)
                     \/ w.room <= 0
             THEN w
             ELSE LET w1 == data_buf_add_le16_offset(w, rec.id)
                      w2 == data_buf_add_u8_offset(w1, rec.version[1])
                      w3 == data_buf_add_u8_offset(w2, rec.version[2])
                      w4 == data_buf_add_u8_offset(w3, rec.version[3])
                      w5 == data_buf_add_u8_offset(w4, Len(rec.elem_offset))
                      w6 == IF Len(rec.elem_offset) # 0
                            THEN data_buf_add_mem_offset(w5, rec.elem_offset) ELSE w5
                      w7 == data_buf_add_le16_offset(w6, Len(rec.data))
                      w8 == IF Len(rec.data) # 0
                            THEN data_buf_add_mem_offset(w7, rec.data) ELSE w7
                  IN  Page2Records(w8, i + 1, allow_partial_elems)

bt_mesh_comp_data_get_page_2(w, allow_partial_elems) ==
    [w |-> Page2Records(w, 1, allow_partial_elems), ret |-> "OK"]

RECURSIVE SumTo(_, _, _)
SumTo(f(_), lo, hi) == IF lo > hi THEN 0 ELSE f(lo) + SumTo(f, lo + 1, hi)

comp_page_0_size == 10 + SumTo(bt_mesh_comp_elem_size, 0, elem_count - 1)

comp_page_1_size == SumTo(page1_elem_size, 0, elem_count - 1)

comp_page_2_size == SumTo(Page2RecordSize, 1, record_cnt)

\* Models Metadata Page 0.  mod->metadata: the vendor model of element 0 and the model of
\* element 1 hold one metadata entry each, the other models have no metadata
HasMetadata(mod) == mod \in {V(0, 0), M(1, 0)}

ModelMetadata(mod) ==
    CASE mod = V(0, 0) -> << [id |-> 2, data |-> <<5, 6>>] >>
      [] mod = M(1, 0) -> << [id |-> 1, data |-> <<7>>] >>
      [] OTHER -> << >>

\* elem->models and elem->vnd_models
SigModels(i) == [j \in 1..model_count(i) |-> M(i, j - 1)]

VndModels(i) == [j \in 1..vnd_model_count(i) |-> V(i, j - 1)]

RECURSIVE MetadataEntriesSize(_, _)
MetadataEntriesSize(entries, k) ==
    IF k > Len(entries) THEN 0
    ELSE 2 + 2 + Len(entries[k].data) + MetadataEntriesSize(entries, k + 1)

metadata_model_size(mod) ==
    IF ~HasMetadata(mod) THEN 0
    ELSE (IF mod.vnd THEN 4 ELSE 2) + 1 + MetadataEntriesSize(ModelMetadata(mod), 1)

RECURSIVE MetadataModelsSize(_, _)
MetadataModelsSize(mods, j) ==
    IF j > Len(mods) THEN 0
    ELSE metadata_model_size(mods[j]) + MetadataModelsSize(mods, j + 1)

MetadataElemSize(i) ==
    2 + MetadataModelsSize(SigModels(i), 1) + MetadataModelsSize(VndModels(i), 1)

bt_mesh_metadata_page_0_size == SumTo(MetadataElemSize, 0, elem_count - 1)

comp_add_model(w, mod) ==
    IF mod.vnd
    THEN data_buf_add_le16_offset(
             data_buf_add_le16_offset(w, Elem(mod.elem).vnd_models[mod.idx + 1][1]),
             Elem(mod.elem).vnd_models[mod.idx + 1][2])
    ELSE data_buf_add_le16_offset(w, Elem(mod.elem).models[mod.idx + 1])

\* the pointer data_buf_add_u8_offset returns for a call on w, as a position in the bytes
\* appended: 0 is NULL, returned when the byte is skipped; anything else is the tail of
\* the buffer before the call, which net_buf_simple_add_mem returns also when the buffer
\* is full and no byte is added
AddedAt(w) == IF w.off >= 1 THEN 0 ELSE Len(w.out) + 1

\* a write through such a pointer: mw.w is the buffer and mw.wild the positions written
\* that are behind the last byte of the buffer
StoreAt(mw, ptr, val) ==
    IF ptr = 0 THEN mw
    ELSE IF ptr <= Len(mw.w.out) THEN [mw EXCEPT !.w.out[ptr] = val % 256]
    ELSE [mw EXCEPT !.wild = @ \cup {ptr}]

\* (*ptr) += 1
IncrAt(mw, ptr) ==
    IF ptr = 0 THEN mw
    ELSE IF ptr <= Len(mw.w.out) THEN [mw EXCEPT !.w.out[ptr] = (@ + 1) % 256]
    ELSE [mw EXCEPT !.wild = @ \cup {ptr}]

\* the loop of metadata_add_model over the entries k..
RECURSIVE MetadataEntries(_, _, _)
MetadataEntries(w, entries, k) ==
    IF k > Len(entries) THEN w
    ELSE MetadataEntries(
             data_buf_add_mem_offset(
                 data_buf_add_le16_offset(
                     data_buf_add_le16_offset(w, Len(entries[k].data)),
                     entries[k].id),
                 entries[k].data),
             entries, k + 1)

metadata_add_model(mw, mod) ==
    IF mw.w.off >= metadata_model_size(mod)
    THEN [mw EXCEPT !.w.off = @ - metadata_model_size(mod)]
    ELSE StoreAt([mw EXCEPT !.w = MetadataEntries(
                                      data_buf_add_u8_offset(comp_add_model(mw.w, mod), 0),
                                      ModelMetadata(mod), 1)],
                 AddedAt(comp_add_model(mw.w, mod)),
                 Len(ModelMetadata(mod)))

\* the loops of bt_mesh_metadata_get_page_0 over the models j.. of one list of an element,
\* ptr being the pointer to the count byte of the list
RECURSIVE MetadataModels(_, _, _, _)
MetadataModels(mw, mods, j, ptr) ==
    IF j > Len(mods) THEN mw
    ELSE IF ~HasMetadata(mods[j]) THEN MetadataModels(mw, mods, j + 1, ptr)
    ELSE MetadataModels(IncrAt(metadata_add_model(mw, mods[j]), ptr), mods, j + 1, ptr)

\* one element: the two count bytes, then the models with metadata
MetadataElem(mw, i) ==
    MetadataModels(
        MetadataModels(
            [mw EXCEPT !.w = data_buf_add_u8_offset(data_buf_add_u8_offset(mw.w, 0), 0)],
            SigModels(i), 1, AddedAt(mw.w)),
        VndModels(i), 1, AddedAt(data_buf_add_u8_offset(mw.w, 0)))

\* the loop of bt_mesh_metadata_get_page_0 over the elements i..
RECURSIVE MetadataElems(_, _)
MetadataElems(mw, i) ==
    IF i >= elem_count \/ mw.w.room = 0 THEN mw
    ELSE MetadataElems(MetadataElem(mw, i), i + 1)

MetadataRead(mw) == [w |-> mw.w, ret |-> "OK", wild |-> mw.wild]

bt_mesh_metadata_get_page_0(w) == MetadataRead(MetadataElems([w |-> w, wild |-> {}], 0))

\* current_page_size(type, page)
current_page_size(type, page) ==
    IF type = "COMP"
    THEN CASE page = 0 -> comp_page_0_size
           [] page = 1 -> comp_page_1_size
           [] page = 2 -> comp_page_2_size
           [] OTHER -> 0
    ELSE IF page = 0 THEN bt_mesh_metadata_page_0_size ELSE 0

\* current_page_contents(buf, type, page, offset, allow_partial_elems)
current_page_contents(w, type, page, allow_partial_elems) ==
    IF type = "COMP"
    THEN CASE page = 0 -> bt_mesh_comp_data_get_page_0(w, allow_partial_elems)
           [] page = 1 -> bt_mesh_comp_data_get_page_1(w, allow_partial_elems)
           [] page = 2 -> bt_mesh_comp_data_get_page_2(w, allow_partial_elems)
           [] OTHER -> [w |-> w, ret |-> "ENOENT"]
    ELSE IF ~allow_partial_elems THEN [w |-> w, ret |-> "EINVAL"]
    ELSE IF page = 0 THEN bt_mesh_metadata_get_page_0(w)
    ELSE [w |-> w, ret |-> "ENOENT"]

(***************************************************************************)
(* The high pages.  The settings backend keeps one value per path; a path  *)
(* that holds no value, or a value of length 0, loads nothing.             *)
(***************************************************************************)
stored_pages ==
    << [type |-> "COMP", page |-> 128, path |-> "bt/mesh/cmp/128"],
       [type |-> "COMP", page |-> 129, path |-> "bt/mesh/cmp/129"],
       [type |-> "COMP", page |-> 130, path |-> "bt/mesh/cmp/130"],
       [type |-> "METADATA", page |-> 128, path |-> "bt/mesh/metadata/128"] >>

StoredPaths == {stored_pages[i].path : i \in 1..Len(stored_pages)}

\* stored_page_path: "" stands for NULL
stored_page_path(type, page) ==
    IF \E i \in 1..Len(stored_pages) : stored_pages[i].type = type /\ stored_pages[i].page = page
    THEN (CHOOSE e \in {stored_pages[i] : i \in 1..Len(stored_pages)} :
              e.type = type /\ e.page = page).path
    ELSE ""

\* CONFIG_BT_MESH_COMP_PST_BUF_SIZE
CONFIG_BT_MESH_COMP_PST_BUF_SIZE == 100

\* new_page_data_is_equal(type, page, new_data, new_len)
\* the memcmp of new_page_data_is_equal, r being what current_page_contents returned
SameBytes(r, new_data) == IF r.ret # "OK" THEN FALSE ELSE r.w.out = new_data

new_page_data_is_equal(type, page, new_data) ==
    IF current_page_size(type, page % 128) # Len(new_data) THEN FALSE
    ELSE SameBytes(current_page_contents(NewBuf(CONFIG_BT_MESH_COMP_PST_BUF_SIZE, 0),
                                         type, page % 128, TRUE),
                   new_data)

\* settings_save_one(path, value, len): the value kept under path afterwards
settings_save_one(store, path, value) == [store EXCEPT ![path] = value]

\* stored_page_write as it would be if data equal to the live page were replaced by the
\* sentinel instead of by no data
stored_page_write_sentinel(store, type, page, data) ==
    LET path == stored_page_path(type, page)
        page_empty == <<0>>
        kept == IF new_page_data_is_equal(type, page, data) THEN page_empty ELSE data
    IN  IF path = "" THEN [store |-> store, ret |-> "ENOENT"]
        ELSE IF Len(data) = 0
        THEN [store |-> settings_save_one(store, path, page_empty), ret |-> "OK"]
        ELSE [store |-> settings_save_one(store, path, kept), ret |-> "OK"]

\* stored_page_write: the store afterwards and the value returned
stored_page_write(store, type, page, data) ==
    LET path == stored_page_path(type, page)
        page_empty == <<0>>
        \* "If page 128+n data equals page n, there is no need to store it": data = NULL
        kept == IF new_page_data_is_equal(type, page, data) THEN << >> ELSE data
    IN  IF path = "" THEN [store |-> store, ret |-> "ENOENT"]
        ELSE IF Len(data) = 0
        THEN [store |-> settings_save_one(store, path, page_empty), ret |-> "OK"]
        ELSE [store |-> settings_save_one(store, path, kept), ret |-> "OK"]

\* bytes i+1.. of a sequence
Drop(seq, i) == SubSeq(seq, i + 1, Len(seq))

next_elem_size_cdp128(rb) ==
    IF Len(rb) < 4 THEN 0 ELSE 4 + (rb[3] * 2) + (rb[4] * 4)

RECURSIVE Cdp129Size(_, _, _)
Cdp129Size(rb, k, size) ==
    IF k = 0 THEN size
    ELSE IF Len(rb) < size + 1 THEN 0
    ELSE LET b == rb[size + 1]
             cor_present == b % 2
             fmt == (b \div 2) % 2
             ext_item_cnt == b \div 4
         IN  Cdp129Size(rb, k - 1, size + 1 + cor_present + ((1 + fmt) * ext_item_cnt))

next_elem_size_cdp129(rb) ==
    IF Len(rb) < 2 THEN 0 ELSE Cdp129Size(rb, rb[1] + rb[2], 2)

next_elem_size_cdp130(rb) ==
    IF Len(rb) < 8 THEN 0
    ELSE LET size == 6 + rb[6]
         IN  IF Len(rb) < size + 2 THEN 0
             ELSE size + 2 + rb[size + 1] + (256 * rb[size + 2])

next_elem_size(rb, page) ==
    CASE page = 128 -> next_elem_size_cdp128(rb)
      [] page = 129 -> next_elem_size_cdp129(rb)
      [] page = 130 -> next_elem_size_cdp130(rb)
      [] OTHER -> 0

\* net_buf_simple_add_mem: no check of the tailroom
net_buf_simple_add_mem(w, data) ==
    [out |-> w.out \o data, room |-> w.room - Len(data), off |-> w.off]

\* net_buf_simple_tailroom, a size_t: a buffer written past its end reports a tailroom
\* near SIZE_MAX (any value above every size of the model stands for it)
net_buf_simple_tailroom(w) == IF w.room >= 0 THEN w.room ELSE 2147483647 + w.room

RECURSIVE WriteCdpElemsLoop(_, _, _)
WriteCdpElemsLoop(w, rb, page) ==
    LET size == next_elem_size(rb, page)
    IN  IF size = 0
        THEN [w |-> w, ret |-> IF Len(rb) # 0 THEN "EINVAL" ELSE "OK"]
        ELSE IF Len(rb) < size THEN [w |-> w, ret |-> "EINVAL"]
        ELSE IF net_buf_simple_tailroom(w) < size THEN [w |-> w, ret |-> "OK"]
        ELSE WriteCdpElemsLoop(net_buf_simple_add_mem(w, SubSeq(rb, 1, size)),
                               Drop(rb, size), page)

\* write_cdp_elems(buf, read_buf, page)
write_cdp_elems(w, rb, page) ==
    IF page = 128
    THEN IF Len(rb) < 10 THEN [w |-> w, ret |-> "EINVAL"]
         ELSE WriteCdpElemsLoop(net_buf_simple_add_mem(w, SubSeq(rb, 1, 10)),
                                Drop(rb, 10), page)
    ELSE WriteCdpElemsLoop(w, rb, page)

\* settings_load_subtree_direct(path, stored_page_read_cb, &read_buf): the bytes loaded
LoadStoredPage(store, path) ==
    IF Len(store[path]) > CONFIG_BT_MESH_COMP_PST_BUF_SIZE THEN << >> ELSE store[path]

\* stored_page_read(buf, type, page, offset, allow_partial_elems)
stored_page_read(store, w, type, page, allow_partial_elems) ==
    LET path == stored_page_path(type, page)
        read_buf == LoadStoredPage(store, path)
    IN  IF ~allow_partial_elems /\ (type # "COMP" \/ w.off # 0)
        THEN [w |-> w, ret |-> "EINVAL"]
        ELSE IF path = "" THEN [w |-> w, ret |-> "ENOENT"]
        ELSE IF Len(read_buf) = 0 THEN [w |-> w, ret |-> "ENOENT"]
        ELSE IF read_buf = <<0>> THEN [w |-> w, ret |-> "OK"]
        ELSE IF w.off > Len(read_buf) THEN [w |-> w, ret |-> "OK"]
        ELSE IF ~allow_partial_elems THEN write_cdp_elems(w, read_buf, page)
        ELSE LET len == Min(net_buf_simple_tailroom(w), Len(read_buf) - w.off)
             IN  [w |-> net_buf_simple_add_mem(w, SubSeq(read_buf, w.off + 1, w.off + len)),
                  ret |-> "OK"]

\* stored_page_size_get(type, page)
stored_page_size_get(store, type, page) ==
    LET path == stored_page_path(type, page)
    IN  IF path = "" THEN 0 ELSE Len(store[path])

\* page_size_get as it would be if a 1-byte record fell through to the live page
page_size_get_live_for_sentinel(store, type, page) ==
    LET size == stored_page_size_get(store, type, page)
    IN  IF page >= 128 /\ size > 1 THEN size
        ELSE current_page_size(type, page % 128)

\* page_size_get(type, page)
page_size_get(store, type, page) ==
    LET size == stored_page_size_get(store, type, page)
    IN  IF page >= 128 /\ size = 1 THEN 0
        ELSE IF page >= 128 /\ size > 1 THEN size
        ELSE current_page_size(type, page % 128)

\* get_page_contents(buf, type, page, offset, allow_partial_elems)
\* r is what stored_page_read returned for a page >= 128: anything but -ENOENT is final
StoredOrCurrent(high, r, w, type, page, allow_partial_elems) ==
    IF high /\ r.ret # "ENOENT" THEN r
    ELSE current_page_contents(w, type, page % 128, allow_partial_elems)

get_page_contents(store, w, type, page, allow_partial_elems) ==
    StoredOrCurrent(page >= 128,
                    stored_page_read(store, w, type, page, allow_partial_elems),
                    w, type, page, allow_partial_elems)

bt_mesh_comp_page_size(store, page) == page_size_get(store, "COMP", page)

bt_mesh_comp_128_changed(store) == stored_page_size_get(store, "COMP", 128) # 0

\* the counting loop of bt_mesh_comp_128_elem_count: buf is walked from its first byte
RECURSIVE Cdp128Count(_, _)
Cdp128Count(buf, count) ==
    IF next_elem_size_cdp128(buf) = 0
    THEN IF Len(buf) # 0 THEN 0 ELSE count % 256
    ELSE IF Len(buf) < next_elem_size_cdp128(buf) THEN 0
    ELSE Cdp128Count(Drop(buf, next_elem_size_cdp128(buf)), count + 1)

\* the walk of bt_mesh_comp_128_elem_count over what was loaded: nothing loaded means the
\* element count does not change
Cdp128ElemCount(buf) == IF Len(buf) = 0 THEN elem_count ELSE Cdp128Count(buf, 0)

\* bt_mesh_comp_128_elem_count()
bt_mesh_comp_128_elem_count(store) ==
    Cdp128ElemCount(LoadStoredPage(store, stored_page_path("COMP", 128)))

\* what a caller sees of a buffer it handed over empty: the bytes appended and the value
\* returned
Appended(r) == [out |-> r.w.out, ret |-> r.ret]

\* bt_mesh_comp_data_get_page(buf, page, offset), buf having `room` bytes of tailroom
bt_mesh_comp_data_get_page(store, room, page, offset) ==
    Appended(get_page_contents(store, NewBuf(room, offset), "COMP", page, TRUE))

\* bt_mesh_comp_data_get_elems(buf, page)
bt_mesh_comp_data_get_elems(store, room, page) ==
    Appended(get_page_contents(store, NewBuf(room, 0), "COMP", page, FALSE))

\* bt_mesh_comp_data_set(page, data, len)
bt_mesh_comp_data_set(store, page, data) == stored_page_write(store, "COMP", page, data)

\* bt_mesh_comp_parse_page: the highest supported page not above the requested one
bt_mesh_comp_parse_page(page) ==
    IF page >= 130 THEN 130
    ELSE IF page >= 128 THEN page
    ELSE IF page >= 2 THEN 2
    ELSE page

NoRead == [active |-> FALSE, done |-> FALSE, page |-> 0, room |-> 0, start |-> 0,
           off |-> 0, acc |-> << >>]

NoSet == [called |-> FALSE, data |-> << >>, equal |-> FALSE, ret |-> "OK"]

NoReq == [op |-> "none"]

\* the timer is not pending
NoTimer == -1

\* a model whose publication is not configured; its publication context has an update
\* callback (update) and is not delayable unless the application defines it otherwise
NoPub ==
    [addr |-> 0, key |-> 0, ttl |-> 0, cred |-> 0, uuid |-> "none", period |-> 0,
     retransmit |-> 0, retr_update |-> FALSE, fast_period |-> FALSE, period_div |-> 0,
     count |-> 0, period_start |-> 0, update |-> TRUE, delayable |-> FALSE]

\* the series of transmissions in progress and the last one that ended
NoSeries ==
    [kind |-> "none", start |-> 0, sent |-> << >>, update_err |-> FALSE,
     send_err |-> FALSE, late |-> FALSE, during |-> FALSE, outstanding |-> 0,
     ended_by |-> "none", next |-> 0]

\* BT_MESH_ADDR_UNASSIGNED
BT_MESH_ADDR_UNASSIGNED == 0

\* CONFIG_BT_MESH_MODEL_KEY_COUNT: keys_cnt of the models whose store is followed
CONFIG_BT_MESH_MODEL_KEY_COUNT == 2

\* CONFIG_BT_MESH_MODEL_GROUP_COUNT: their groups_cnt
CONFIG_BT_MESH_MODEL_GROUP_COUNT == 2

BT_MESH_KEY_UNUSED == 65535

\* the model that publishes
PubModel == M(1, 0)

\* the models whose stored configuration is followed: one with a publication context and a
\* vendor model without one
StoredModels == {PubModel, V(0, 0)}

\* mod->keys after mod_init and mod->groups as the composition defines them
NoConf ==
    [keys |-> [i \in 1..CONFIG_BT_MESH_MODEL_KEY_COUNT |-> BT_MESH_KEY_UNUSED],
     groups |-> [i \in 1..CONFIG_BT_MESH_MODEL_GROUP_COUNT |-> BT_MESH_ADDR_UNASSIGNED]]

\* snprintk("%x"): the hexadecimal digits of n, most significant first
RECURSIVE HexDigits(_)
HexDigits(n) == IF n < 16 THEN <<n>> ELSE HexDigits(n \div 16) \o <<n % 16>>

\* encode_mod_path: "bt/mesh/s/<mod_key>/<key>" or "bt/mesh/v/<mod_key>/<key>"
encode_mod_path(mod, key) ==
    [vnd |-> mod.vnd, mod_key |-> HexDigits(mod.elem * 256 + mod.idx), key |-> key]

\* the first entry of an array that is not in use, 0 when all are
FirstUnused(arr, unused) ==
    IF \E i \in 1..Len(arr) : arr[i] = unused
    THEN CHOOSE i \in 1..Len(arr) : arr[i] = unused /\ \A j \in 1..(i - 1) : arr[j] # unused
    ELSE 0

\* the records of a model
RecordKeys == {"bind", "sub", "subv", "pub"}

ModPaths == {encode_mod_path(m, k) : m \in StoredModels, k \in RecordKeys}

\* no value is stored under a path
NoRecord == << >>

\* no element has an address: the state before provisioning
Unprovisioned ==
    [primary |-> BT_MESH_ADDR_UNASSIGNED,
     elem |-> [i \in 0..(elem_count - 1) |-> BT_MESH_ADDR_UNASSIGNED]]

\* rt->elem_idx and rt->mod_idx before mod_init has written them
NoIdx == [elem_idx |-> 0, mod_idx |-> 0]

\* bt_mesh_model_foreach: the calls it makes, element by element, the SIG models of an
\* element before its vendor models; each call gets the model and the loop indexes
ElemCalls(i) ==
    [k \in 1..(model_count(i) + vnd_model_count(i)) |->
        IF k <= model_count(i)
        THEN [mod |-> M(i, k - 1), elem |-> i, vnd |-> FALSE, j |-> k - 1]
        ELSE [mod |-> V(i, k - 1 - model_count(i)), elem |-> i, vnd |-> TRUE,
              j |-> k - 1 - model_count(i)]]

RECURSIVE ForeachCallsFrom(_)
ForeachCallsFrom(i) ==
    IF i >= elem_count THEN << >> ELSE ElemCalls(i) \o ForeachCallsFrom(i + 1)

\* a mod_init that counts the vendor models on from the SIG models of the element
mod_init_combined_index(st, call, failing) ==
    IF st.err THEN st
    ELSE [idx |-> [st.idx EXCEPT ![call.mod] =
                      [elem_idx |-> call.elem,
                       mod_idx |-> call.j + (IF call.vnd THEN model_count(call.elem) ELSE 0)]],
          err |-> call.mod = failing]

\* mod_init: nothing once an initialiser has failed; else the two indexes are written and
\* the initialiser of the model runs, which fails for the model `failing`
mod_init(st, call, failing) ==
    IF st.err THEN st
    ELSE [idx |-> [st.idx EXCEPT ![call.mod] = [elem_idx |-> call.elem, mod_idx |-> call.j]],
          err |-> call.mod = failing]

RECURSIVE InitFrom(_, _, _)
InitFrom(st, calls, failing) ==
    IF calls = << >> THEN st
    ELSE InitFrom(mod_init(st, Head(calls), failing), Tail(calls), failing)

\* bt_mesh_comp_register: the indexes after bt_mesh_model_foreach(mod_init, &err) and err
bt_mesh_comp_register(idx, failing) ==
    InitFrom([idx |-> idx, err |-> FALSE], ForeachCallsFrom(0), failing)

Init ==
    /\ next = [m \in Models |-> NULL]
    /\ flags = [m \in Models |-> {}]
    /\ mod_rel_list = [i \in 1..MOD_REL_LIST_SIZE |-> EmptyRel]
    /\ settings = [p \in StoredPaths |-> << >>]
    /\ registered = FALSE
    /\ n_calls = 0
    /\ ext_calls = {}
    /\ cor_calls = {}
    /\ last_set = [p \in {128, 129, 130} |-> NoSet]
    /\ rd = NoRead
    /\ req = NoReq
    /\ last_op = [op |-> "none"]
    /\ groups = [m \in Models |-> {}]
    /\ uuids = [m \in Models |-> {}]
    /\ msg_cb = FALSE
    /\ n_subs = 0
    /\ pub = NoPub
    /\ timer = NoTimer
    /\ tx = << >>
    /\ now = 0
    /\ pubh = [cur |-> NoSeries, done |-> NoSeries]
    /\ n_pub = 0
    /\ suspended = FALSE
    /\ conf = [m \in StoredModels |-> NoConf]
    /\ mod_records = [p \in ModPaths |-> NoRecord]
    /\ addrs = Unprovisioned
    /\ rt_idx = [m \in Models |-> NoIdx]

(***************************************************************************)
(* Operations.  All access-layer work runs to completion on one work       *)
(* queue: a request is handled whole before the next operation starts.     *)
(***************************************************************************)
Idle == registered /\ req = NoReq

\* a model initialiser, run by bt_mesh_comp_register, extends a model
Extend(a, b) ==
    /\ ~registered
    /\ n_calls < MaxCalls
    /\ bt_mesh_model_extend(a, b)

\* a model initialiser registers a correspondence
Correspond(a, b) ==
    /\ ~registered
    /\ n_calls < MaxCalls
    /\ bt_mesh_model_correspond(a, b)

\* bt_mesh_comp_register returns: every model initialiser has run
CompRegister ==
    /\ ~registered
    /\ registered' = TRUE
    /\ rt_idx' = bt_mesh_comp_register(rt_idx, NULL).idx
    /\ last_op' = [op |-> "register"]
    /\ UNCHANGED <<next, flags, mod_rel_list, settings, n_calls, ext_calls, cor_calls,
                   last_set, rd, req, runtime, publication, suspended, conf, mod_records,
                   addrs>>

\* bt_mesh_comp_register returns the error of the initialiser of one model: the models
\* after it are left as they were
CompRegisterFailed(failing) ==
    /\ ~registered
    /\ last_op.op # "register_failed"
    /\ rt_idx' = bt_mesh_comp_register(rt_idx, failing).idx
    /\ last_op' = [op |-> "register_failed", failing |-> failing]
    /\ UNCHANGED <<next, flags, mod_rel_list, settings, registered, n_calls, ext_calls,
                   cor_calls, last_set, rd, req, runtime, publication, suspended, conf,
                   mod_records, addrs>>

\* bt_mesh_comp_page_size(page)
CompPageSize(page) ==
    /\ Idle
    /\ last_op' = [op |-> "page_size", page |-> page,
                   size |-> bt_mesh_comp_page_size(settings, page)]
    /\ UNCHANGED <<next, flags, mod_rel_list, settings, registered, n_calls, ext_calls,
                   cor_calls, last_set, rd, req, runtime, publication, node>>

\* bt_mesh_comp_128_changed()
Comp128Changed ==
    /\ Idle
    /\ last_op' = [op |-> "changed", ret |-> bt_mesh_comp_128_changed(settings)]
    /\ UNCHANGED <<next, flags, mod_rel_list, settings, registered, n_calls, ext_calls,
                   cor_calls, last_set, rd, req, runtime, publication, node>>

\* bt_mesh_comp_128_elem_count()
Comp128ElemCount ==
    /\ Idle
    /\ last_op' = [op |-> "elem_count", ret |-> bt_mesh_comp_128_elem_count(settings)]
    /\ UNCHANGED <<next, flags, mod_rel_list, settings, registered, n_calls, ext_calls,
                   cor_calls, last_set, rd, req, runtime, publication, node>>

\* the store and the history once bt_mesh_comp_data_set returned r
Staged(r, page, data) ==
    /\ settings' = r.store
    /\ last_set' = [last_set EXCEPT ![page] =
                       [called |-> TRUE, data |-> data,
                        equal |-> (current_page_contents(
                                       NewBuf(Unlimited, 0), "COMP", page % 128,
                                       TRUE).w.out = data),
                        ret |-> r.ret]]
    /\ last_op' = [op |-> "set", page |-> page, ret |-> r.ret]

\* bt_mesh_comp_data_set(page, data, len): the application stages a high page
CompDataSet(page, data) ==
    /\ Idle
    /\ ~rd.active
    /\ Staged(bt_mesh_comp_data_set(settings, page, data), page, data)
    /\ UNCHANGED <<next, flags, mod_rel_list, registered, n_calls, ext_calls, cor_calls, rd,
                   req, runtime, publication, node>>

\* a Composition Data Get arrives: the Configuration Server will fill a response that has
\* `room` bytes of tailroom with whole elements of the page
RecvCompDataGet(page, room) ==
    /\ Idle
    /\ ~rd.active
    /\ req' = [op |-> "comp_data_get", page |-> page, room |-> room]
    /\ rd' = NoRead
    /\ last_op' = [op |-> "none"]
    /\ UNCHANGED <<next, flags, mod_rel_list, settings, registered, n_calls, ext_calls,
                   cor_calls, last_set, runtime, publication, node>>

\* bt_mesh_comp_data_get_elems(buf, page)
HandleCompDataGet ==
    /\ req.op = "comp_data_get"
    /\ last_op' = [op |-> "get_elems", page |-> req.page, room |-> req.room] @@
                  bt_mesh_comp_data_get_elems(settings, req.room, req.page)
    /\ req' = NoReq
    /\ UNCHANGED <<next, flags, mod_rel_list, settings, registered, n_calls, ext_calls,
                   cor_calls, last_set, rd, runtime, publication, node>>

\* a client starts reading a page at some offset: Large Composition Data Get.
\* `room` is the tailroom of rsp left for page bytes once the opcode, page, offset and
\* total size are in and the MIC is reserved.
RecvLargeCompDataGet(page, offset, room) ==
    /\ Idle
    /\ ~rd.active
    /\ req' = [op |-> "large_comp_data_get", page |-> page, offset |-> offset,
               room |-> room]
    /\ rd' = [active |-> TRUE, done |-> FALSE, page |-> page, room |-> room,
              start |-> offset, off |-> offset, acc |-> << >>]
    /\ last_op' = [op |-> "none"]
    /\ UNCHANGED <<next, flags, mod_rel_list, settings, registered, n_calls, ext_calls,
                   cor_calls, last_set, runtime, publication, node>>

\* the client asks for the bytes after those it has
RecvLargeCompDataGetNext ==
    /\ Idle
    /\ rd.active
    /\ req' = [op |-> "large_comp_data_get", page |-> rd.page, offset |-> rd.off,
               room |-> rd.room]
    /\ last_op' = [op |-> "none"]
    /\ UNCHANGED <<next, flags, mod_rel_list, settings, registered, n_calls, ext_calls,
                   cor_calls, last_set, rd, runtime, publication, node>>

\* the Status for the page the request is answered with: page, offset, total size, then
\* the bytes of the page (out) and the value returned (ret)
LargeCompDataStatus(store, page, offset, room) ==
    [page |-> page, offset |-> offset, total |-> bt_mesh_comp_page_size(store, page)] @@
    bt_mesh_comp_data_get_page(store, room, page, offset)

\* handle_large_comp_data_get: the Status built for a Get
handle_large_comp_data_get(store, req_page, offset, room) ==
    LargeCompDataStatus(store, bt_mesh_comp_parse_page(req_page), offset, room)

\* the Status reaches the client, which stops at a Status that carries no bytes
ClientGot(rsp) ==
    /\ last_op' = [op |-> "large_comp_data_get", room |-> req.room] @@ rsp
    /\ rd' = [rd EXCEPT !.active = Len(rsp.out) > 0,
                        !.done = Len(rsp.out) = 0,
                        !.off = @ + Len(rsp.out),
                        !.acc = @ \o rsp.out]

HandleLargeCompDataGet ==
    /\ req.op = "large_comp_data_get"
    /\ ClientGot(handle_large_comp_data_get(settings, req.page, req.offset, req.room))
    /\ req' = NoReq
    /\ UNCHANGED <<next, flags, mod_rel_list, settings, registered, n_calls, ext_calls,
                   cor_calls, last_set, runtime, publication, node>>

\* bt_mesh_models_metadata_page_size(page)
bt_mesh_models_metadata_page_size(store, page) == page_size_get(store, "METADATA", page)

\* bt_mesh_models_metadata_get_page(buf, page, offset), buf having `room` bytes of tailroom
AppendedAndWild(r) ==
    [out |-> r.w.out, ret |-> r.ret, wild |-> IF "wild" \in DOMAIN r THEN r.wild ELSE {}]

bt_mesh_models_metadata_get_page(store, room, page, offset) ==
    AppendedAndWild(get_page_contents(store, NewBuf(room, offset), "METADATA", page, TRUE))

\* bt_mesh_models_metadata_set(page, data, len)
bt_mesh_models_metadata_set(store, page, data) == stored_page_write(store, "METADATA", page, data)

\* a page choice that takes the byte 128 for a low page
MetadataPage_above_128(page) == IF page > 128 THEN 128 ELSE 0

\* the page handle_models_metadata_get answers with, CONFIG_BT_MESH_HIGH_DATA_PAGES set
MetadataPage(page) == IF page >= 128 THEN 128 ELSE 0

\* handle_models_metadata_get: the Status built for a Get
handle_models_metadata_get(store, req_page, offset, room) ==
    [page |-> MetadataPage(req_page), offset |-> offset,
     total |-> bt_mesh_models_metadata_page_size(store, MetadataPage(req_page))] @@
    bt_mesh_models_metadata_get_page(store, room, MetadataPage(req_page), offset)

\* the application stages Models Metadata Page 128
ModelsMetadataSet(data) ==
    /\ Idle
    /\ settings' = bt_mesh_models_metadata_set(settings, 128, data).store
    /\ last_op' = [op |-> "models_metadata_set"]
    /\ UNCHANGED <<next, flags, mod_rel_list, registered, n_calls, ext_calls, cor_calls,
                   last_set, rd, req, runtime, publication, node>>

\* a Models Metadata Get is handled; the handler keeps no state, so one Get follows
\* another operation
ModelsMetadataGet(page, offset, room) ==
    /\ Idle
    /\ last_op.op # "models_metadata_get"
    /\ last_op' = [op |-> "models_metadata_get", req_page |-> page, req_offset |-> offset,
                   room |-> room] @@
                  handle_models_metadata_get(settings, page, offset, room)
    /\ UNCHANGED <<next, flags, mod_rel_list, settings, registered, n_calls, ext_calls,
                   cor_calls, last_set, rd, req, runtime, publication, node>>

(***************************************************************************)
(* Message dispatch: bt_mesh_model_recv and what it calls.                 *)
(***************************************************************************)
\* the classes of the mesh address space
BT_MESH_ADDR_IS_UNICAST(addr) == addr # 0 /\ addr < 32768

BT_MESH_ADDR_IS_VIRTUAL(addr) == addr >= 32768 /\ addr < 49152

BT_MESH_ADDR_IS_GROUP(addr) == addr >= 49152 /\ addr < 65280

BT_MESH_ADDR_IS_FIXED_GROUP(addr) == addr >= 65280 /\ addr < 65535

BT_MESH_KEY_DEV_ANY == 65532

BT_MESH_KEY_DEV == 65534

BT_MESH_IS_DEV_KEY(key) == key = 65534 \/ key = 65533

\* the primary address bt_mesh_comp_provision was called with
dev_primary_addr == 16

\* elem->rt->addr, as bt_mesh_comp_provision assigns it
ElemAddr(i) == dev_primary_addr + i

\* mod->keys: the keys the application has bound every model to
ModelKeys(mod) ==
    CASE mod = M(0, 0) -> {BT_MESH_KEY_DEV_ANY}
      [] mod = M(0, 1) -> {BT_MESH_KEY_DEV}
      [] mod = V(0, 0) -> {3}
      [] mod = M(1, 0) -> {7}
      [] mod = M(2, 0) -> {3}
      [] mod = M(3, 0) -> {3, 7}
      [] mod = M(4, 0) -> {7}
      [] mod = M(4, 1) -> {3}

\* mod->op: the opcode table of every model; len >= 0 is a minimum payload length, len < 0
\* an exact one
ModelOps(mod) ==
    CASE mod = M(0, 0) -> << [opcode |-> 32776, len |-> 1] >>
      [] mod = M(0, 1) -> << [opcode |-> 32884, len |-> -3] >>
      [] mod = V(0, 0) -> << [opcode |-> 12648537, len |-> -1] >>
      [] mod = M(1, 0) -> << [opcode |-> 33282, len |-> 2] >>
      [] mod = M(2, 0) -> << [opcode |-> 33282, len |-> 2] >>
      [] mod = M(3, 0) -> << [opcode |-> 4, len |-> -1] >>
      [] mod = M(4, 0) -> << [opcode |-> 33282, len |-> 2] >>
      [] mod = M(4, 1) -> << [opcode |-> 33282, len |-> 2], [opcode |-> 33283, len |-> 0] >>

bt_mesh_msg_cb_set(cb) == msg_cb' = cb

bt_mesh_model_has_key(mod, key) ==
    \E k \in ModelKeys(mod) : k = key \/ (k = BT_MESH_KEY_DEV_ANY /\ BT_MESH_IS_DEV_KEY(key))

\* bt_mesh_model_extensions_walk with a callback that never stops: the models visited, in
\* order
RECURSIVE WalkFrom(_, _)
WalkFrom(it, model) ==
    IF it = model THEN << >> ELSE <<it>> \o WalkFrom(next[it], model)

bt_mesh_model_extensions_walk(model) ==
    IF next[model] = NULL THEN <<model>> ELSE <<model>> \o WalkFrom(next[model], model)

model_group_get(mod, addr) == addr \in groups[mod]

\* a visitor that takes a subscription of a model on any element
find_group_mod_visitor_any_elem(mod, ctx_mod, addr) == model_group_get(mod, addr)

\* TRUE when the visitor stops the walk at mod; ctx_mod is the model the search started at
find_group_mod_visitor(mod, ctx_mod, addr) ==
    mod.elem = ctx_mod.elem /\ model_group_get(mod, addr)

FirstOf(found) == IF found = << >> THEN NULL ELSE Head(found)

\* the model of the ring the search stops at, or NULL
bt_mesh_model_find_group(mod, addr) ==
    FirstOf(SelectSeq(bt_mesh_model_extensions_walk(mod),
                      LAMBDA m : find_group_mod_visitor(m, mod, addr)))

model_uuid_get(mod, uuid) == uuid \in uuids[mod]

find_uuid_mod_visitor(mod, ctx_mod, uuid) ==
    mod.elem = ctx_mod.elem /\ model_uuid_get(mod, uuid)

bt_mesh_model_find_uuid(mod, uuid) ==
    FirstOf(SelectSeq(bt_mesh_model_extensions_walk(mod),
                      LAMBDA m : find_uuid_mod_visitor(m, mod, uuid)))

\* a destination check that lets a fixed group address through on every element
model_has_dst_fixed_everywhere(mod, dst, uuid) ==
    IF BT_MESH_ADDR_IS_UNICAST(dst) THEN ElemAddr(mod.elem) = dst
    ELSE IF BT_MESH_ADDR_IS_VIRTUAL(dst) THEN bt_mesh_model_find_uuid(mod, uuid) # NULL
    ELSE IF BT_MESH_ADDR_IS_GROUP(dst) THEN bt_mesh_model_find_group(mod, dst) # NULL
    ELSE TRUE

model_has_dst(mod, dst, uuid) ==
    IF BT_MESH_ADDR_IS_UNICAST(dst) THEN ElemAddr(mod.elem) = dst
    ELSE IF BT_MESH_ADDR_IS_VIRTUAL(dst) THEN bt_mesh_model_find_uuid(mod, uuid) # NULL
    ELSE IF \/ BT_MESH_ADDR_IS_GROUP(dst)
            \/ (BT_MESH_ADDR_IS_FIXED_GROUP(dst) /\ mod.elem # 0)
         THEN bt_mesh_model_find_group(mod, dst) # NULL
    ELSE mod.elem = 0

BT_MESH_MODEL_OP_LEN(opcode) == IF opcode <= 255 THEN 1 ELSE IF opcode <= 65535 THEN 2 ELSE 3

\* the model list find_op looks in: the vendor models of another company are passed over
OpModels(e, opcode) ==
    IF BT_MESH_MODEL_OP_LEN(opcode) < 3
    THEN [i \in 1..model_count(e) |-> M(e, i - 1)]
    ELSE SelectSeq([i \in 1..vnd_model_count(e) |-> V(e, i - 1)],
                   LAMBDA m : Elem(e).vnd_models[m.idx + 1][1] = opcode % 65536)

OpOf(mod, opcode) == SelectSeq(ModelOps(mod), LAMBDA op : op.opcode = opcode)

NoOp == [model |-> NULL, len |-> 0]

\* find_op: the first model of the list that has the opcode, and the length it declares
FoundOp(found, opcode) ==
    IF found = << >> THEN NoOp
    ELSE [model |-> Head(found), len |-> Head(OpOf(Head(found), opcode)).len]

find_op(e, opcode) ==
    FoundOp(SelectSeq(OpModels(e, opcode), LAMBDA m : OpOf(m, opcode) # << >>), opcode)

OpcodeError == [err |-> "EINVAL", opcode |-> 0, payload |-> << >>]

\* a decoder that takes 0x7F for a 1-octet opcode
get_opcode_7f(data) ==
    CASE data[1] \div 64 \in {0, 1} ->
             [err |-> "OK", opcode |-> data[1], payload |-> Drop(data, 1)]
      [] data[1] \div 64 = 2 ->
             IF Len(data) < 2 THEN OpcodeError
             ELSE [err |-> "OK", opcode |-> data[1] * 256 + data[2], payload |-> Drop(data, 2)]
      [] data[1] \div 64 = 3 ->
             IF Len(data) < 3 THEN OpcodeError
             ELSE [err |-> "OK", opcode |-> data[1] * 65536 + data[2] + 256 * data[3],
                   payload |-> Drop(data, 3)]

\* get_opcode: the opcode and the payload left in the buffer
get_opcode(data) ==
    CASE data[1] \div 64 \in {0, 1} ->
             IF data[1] = 127 THEN OpcodeError
             ELSE [err |-> "OK", opcode |-> data[1], payload |-> Drop(data, 1)]
      [] data[1] \div 64 = 2 ->
             IF Len(data) < 2 THEN OpcodeError
             ELSE [err |-> "OK", opcode |-> data[1] * 256 + data[2], payload |-> Drop(data, 2)]
      [] data[1] \div 64 = 3 ->
             IF Len(data) < 3 THEN OpcodeError
             ELSE [err |-> "OK", opcode |-> data[1] * 65536 + data[2] + 256 * data[3],
                   payload |-> Drop(data, 3)]

Delivery(status, invoked) == [status |-> status, invoked |-> invoked]

\* op->func: the handlers of the application return an error for the parameter value 9
HandlerErr(mod, payload) == payload # << >> /\ payload[1] = 9

\* a delivery that looks at the destination before the key
ModelRecv_dst_first(ctx, payload, op) ==
    IF op.model = NULL THEN Delivery("WRONG_OPCODE", << >>)
    ELSE IF ~model_has_dst(op.model, ctx.recv_dst, ctx.uuid)
         THEN Delivery("INVALID_ADDRESS", << >>)
    ELSE IF ~bt_mesh_model_has_key(op.model, ctx.app_idx) THEN Delivery("WRONG_KEY", << >>)
    ELSE IF \/ op.len >= 0 /\ Len(payload) < op.len
            \/ op.len < 0 /\ Len(payload) # -op.len
         THEN Delivery("MESSAGE_NOT_UNDERSTOOD", << >>)
    ELSE IF HandlerErr(op.model, payload) THEN Delivery("MESSAGE_NOT_UNDERSTOOD", <<op.model>>)
    ELSE Delivery("SUCCESS", <<op.model>>)

\* element_model_recv after find_op
ModelRecv(ctx, payload, op) ==
    IF op.model = NULL THEN Delivery("WRONG_OPCODE", << >>)
    ELSE IF ~bt_mesh_model_has_key(op.model, ctx.app_idx) THEN Delivery("WRONG_KEY", << >>)
    ELSE IF ~model_has_dst(op.model, ctx.recv_dst, ctx.uuid)
         THEN Delivery("INVALID_ADDRESS", << >>)
    ELSE IF \/ op.len >= 0 /\ Len(payload) < op.len
            \/ op.len < 0 /\ Len(payload) # -op.len
         THEN Delivery("MESSAGE_NOT_UNDERSTOOD", << >>)
    ELSE IF HandlerErr(op.model, payload) THEN Delivery("MESSAGE_NOT_UNDERSTOOD", <<op.model>>)
    ELSE Delivery("SUCCESS", <<op.model>>)

\* a delivery that goes on to the next model that has the opcode when a check fails
element_model_recv_with_fallback(ctx, payload, e, opcode) ==
    IF \E i \in 1..Len(OpModels(e, opcode)) :
           /\ OpOf(OpModels(e, opcode)[i], opcode) # << >>
           /\ ModelRecv(ctx, payload,
                        FoundOp(<<OpModels(e, opcode)[i]>>, opcode)).invoked # << >>
    THEN ModelRecv(ctx, payload,
                   FoundOp(SelectSeq(OpModels(e, opcode),
                                     LAMBDA m : /\ OpOf(m, opcode) # << >>
                                                /\ ModelRecv(ctx, payload,
                                                             FoundOp(<<m>>, opcode)).invoked
                                                       # << >>),
                           opcode))
    ELSE ModelRecv(ctx, payload, find_op(e, opcode))

element_model_recv(ctx, payload, e, opcode) ==
    ModelRecv(ctx, payload, find_op(e, opcode))

\* what bt_mesh_model_recv has done: the status it returns, the handlers it invoked, the
\* status of every element it delivered to and the number of raw-message callbacks
Outcome(status, invoked, elems, cb) ==
    [status |-> status, invoked |-> invoked, elems |-> elems, cb |-> cb]

\* the receive buffer after get_opcode: the read cursor, counted from the first octet after
\* the opcode, and the number of octets from the cursor to the end
RecvBuf(payload) == [data |-> 0, len |-> Len(payload)]

\* buf->data[0 .. buf->len): the octets a reader of the buffer sees
BufData(payload, buf) == SubSeq(payload, buf.data + 1, buf.data + buf.len)

net_buf_simple_save(buf) == [offset |-> buf.data, len |-> buf.len]

net_buf_simple_restore(buf, state) == [data |-> state.offset, len |-> state.len]

net_buf_simple_pull(buf, n) == [data |-> buf.data + n, len |-> buf.len - n]

\* op->func: a handler pulls what it reads from the buffer; the handlers of the application
\* read all parameters, and only the first one when they refuse it
op_func(mod, buf, seen) ==
    net_buf_simple_pull(buf, IF HandlerErr(mod, seen) THEN 1 ELSE Len(seen))

\* a delivery that leaves the buffer as the handler left it
BufAfter_handler(d, buf, seen) ==
    IF d.invoked = << >> THEN buf ELSE op_func(d.invoked[1], buf, seen)

\* the buffer element_model_recv returns with: untouched when a check fails, and saved
\* before and restored after the handler
BufAfter(d, buf, seen) ==
    IF d.invoked = << >> THEN buf
    ELSE net_buf_simple_restore(op_func(d.invoked[1], buf, seen), net_buf_simple_save(buf))

\* the buffer the next call of element_model_recv gets
CurBuf(payload, elems) ==
    IF elems = << >> THEN RecvBuf(payload) ELSE elems[Len(elems)].buf

\* one call of element_model_recv for the element index: its status, what its handler
\* saw and the buffer it returned with
Delivered(acc, index, d, buf, seen) ==
    Outcome(IF d.status = "SUCCESS" THEN "SUCCESS" ELSE acc.status,
            acc.invoked \o d.invoked,
            acc.elems \o << [index |-> index, status |-> d.status, seen |-> seen,
                             buf |-> BufAfter(d, buf, seen)] >>,
            0)

\* the loop over all elements of a message that is not unicast
RECURSIVE DeliverAll(_, _, _, _, _)
DeliverAll(ctx, payload, opcode, index, acc) ==
    IF index >= elem_count THEN acc
    ELSE DeliverAll(ctx, payload, opcode, index + 1,
                    Delivered(acc, index,
                              element_model_recv(ctx,
                                                 BufData(payload, CurBuf(payload, acc.elems)),
                                                 index, opcode),
                              CurBuf(payload, acc.elems),
                              BufData(payload, CurBuf(payload, acc.elems))))

OneElement(index, d, payload) ==
    Delivered(Outcome(d.status, << >>, << >>, 0), index, d, RecvBuf(payload), payload)

\* the raw-message callback at the end of bt_mesh_model_recv
WithMsgCb(out, cb) == [out EXCEPT !.cb = IF cb THEN 1 ELSE 0]

\* a dispatcher that treats a unicast destination like any other
Dispatch_every_element(ctx, decoded, cb) ==
    IF decoded.err # "OK" THEN Outcome("WRONG_OPCODE", << >>, << >>, 0)
    ELSE WithMsgCb(DeliverAll(ctx, decoded.payload, decoded.opcode, 0,
                              Outcome("MESSAGE_NOT_UNDERSTOOD", << >>, << >>, 0)), cb)

Dispatch(ctx, decoded, cb) ==
    IF decoded.err # "OK" THEN Outcome("WRONG_OPCODE", << >>, << >>, 0)
    ELSE IF BT_MESH_ADDR_IS_UNICAST(ctx.recv_dst)
         THEN IF (ctx.recv_dst - ElemAddr(0)) % 65536 >= elem_count
              THEN Outcome("INVALID_ADDRESS", << >>, << >>, 0)
              ELSE WithMsgCb(OneElement((ctx.recv_dst - ElemAddr(0)) % 65536,
                                        element_model_recv(
                                            ctx, decoded.payload,
                                            (ctx.recv_dst - ElemAddr(0)) % 65536,
                                            decoded.opcode),
                                        decoded.payload), cb)
    ELSE WithMsgCb(DeliverAll(ctx, decoded.payload, decoded.opcode, 0,
                              Outcome("MESSAGE_NOT_UNDERSTOOD", << >>, << >>, 0)), cb)

bt_mesh_model_recv(ctx, data) == Dispatch(ctx, get_opcode(data), msg_cb)

\* bt_mesh_access_recv: what the transport layer is told
bt_mesh_access_recv(ctx, data) ==
    IF msg_cb THEN "SUCCESS" ELSE bt_mesh_model_recv(ctx, data).status

\* the application registers or clears the raw-message callback
MsgCbSet(cb) ==
    /\ registered
    /\ cb # msg_cb
    /\ bt_mesh_msg_cb_set(cb)
    /\ last_op' = [op |-> "msg_cb_set"]
    /\ UNCHANGED <<next, flags, mod_rel_list, settings, registered, n_calls, ext_calls,
                   cor_calls, last_set, rd, req, groups, uuids, n_subs, publication, node>>

\* the configuration of the node holds at most this many subscriptions
MaxSubs == 2

\* the Configuration Server adds a group address to the subscription list of a model
ModSubAdd(mod, addr) ==
    /\ registered
    /\ n_subs < MaxSubs
    /\ addr \notin groups[mod]
    /\ IF mod \in StoredModels
       THEN FirstUnused(conf[mod].groups, BT_MESH_ADDR_UNASSIGNED) # 0 ELSE TRUE
    /\ groups' = [groups EXCEPT ![mod] = @ \cup {addr}]
    /\ conf' = IF mod \in StoredModels
               THEN [conf EXCEPT ![mod].groups[
                         FirstUnused(conf[mod].groups, BT_MESH_ADDR_UNASSIGNED)] = addr]
               ELSE conf
    /\ n_subs' = n_subs + 1
    /\ last_op' = [op |-> "sub_add"]
    /\ UNCHANGED <<next, flags, mod_rel_list, settings, registered, n_calls, ext_calls,
                   cor_calls, last_set, rd, req, uuids, msg_cb, publication, suspended,
                   mod_records, addrs, rt_idx>>

\* the Configuration Server adds a label UUID to the subscription list of a model
ModSubVaAdd(mod, uuid) ==
    /\ registered
    /\ n_subs < MaxSubs
    /\ uuid \notin uuids[mod]
    /\ uuids' = [uuids EXCEPT ![mod] = @ \cup {uuid}]
    /\ n_subs' = n_subs + 1
    /\ last_op' = [op |-> "sub_va_add"]
    /\ UNCHANGED <<next, flags, mod_rel_list, settings, registered, n_calls, ext_calls,
                   cor_calls, last_set, rd, req, groups, msg_cb, publication, node>>

\* the transport layer hands a decrypted message to bt_mesh_access_recv.  Dispatch changes
\* nothing but the record of the last operation, so a message that follows another one
\* is dispatched as if it were the first: the next message is taken after another operation.
AccessRecv(ctx, data) ==
    /\ Idle
    /\ last_op.op # "recv"
    /\ last_op' = [op |-> "recv", ctx |-> ctx, data |-> data, msg_cb |-> msg_cb,
                   ret |-> bt_mesh_access_recv(ctx, data)]
                  @@ bt_mesh_model_recv(ctx, data)
    /\ UNCHANGED <<next, flags, mod_rel_list, settings, registered, n_calls, ext_calls,
                   cor_calls, last_set, rd, req, runtime, publication, node>>

(***************************************************************************)
(* Stored model configuration: the records of bindings, subscriptions and  *)
(* publication, the pending flags and bt_mesh_model_pending_store.         *)
(***************************************************************************)
\* the entries of an array that are in use, in their order
Compact(arr, unused) == SelectSeq(arr, LAMBDA x : x # unused)

\* an array of uint16_t as the bytes it occupies
RECURSIVE Bytes16(_)
Bytes16(vals) == IF vals = << >> THEN << >> ELSE LE16(Head(vals)) \o Bytes16(Tail(vals))

\* read_cb into an array of cnt uint16_t that holds `unused`: the bytes of the value are
\* copied over the first entries
ReadArray(value, cnt, unused) ==
    [i \in 1..cnt |-> IF 2 * i <= Len(value) THEN value[2 * i - 1] + 256 * value[2 * i]
                      ELSE unused]

\* the label UUIDs of the node, by index
VaLabels == <<"label">>

\* bt_mesh_va_get_uuid_by_idx: "none" stands for NULL
bt_mesh_va_get_uuid_by_idx(idx) == IF idx < Len(VaLabels) THEN VaLabels[idx + 1] ELSE "none"

\* bt_mesh_va_get_idx_by_uuid: -1 stands for -ENOENT
bt_mesh_va_get_idx_by_uuid(uuid) ==
    IF \E i \in 1..Len(VaLabels) : VaLabels[i] = uuid
    THEN (CHOOSE i \in 1..Len(VaLabels) : VaLabels[i] = uuid) - 1
    ELSE -1

\* the value store_pending_mod_bind saves; NoRecord when it deletes
BindValue(mod_keys) == Bytes16(Compact(mod_keys, BT_MESH_KEY_UNUSED))

\* the value store_pending_mod_sub saves
SubValue(mod_groups) == Bytes16(Compact(mod_groups, BT_MESH_ADDR_UNASSIGNED))

\* the value store_pending_mod_sub_va saves: the indexes of the labels subscribed to
SubVaValue(mod_uuids) ==
    Bytes16(SelectSeq([i \in 1..Len(VaLabels) |-> i - 1],
                      LAMBDA idx : VaLabels[idx + 1] \in mod_uuids))

\* the value store_pending_mod_pub saves: struct mod_pub_val
PubValue(mod, p) ==
    IF mod # PubModel \/ p.addr = BT_MESH_ADDR_UNASSIGNED THEN NoRecord
    ELSE LE16(p.addr) \o LE16(p.key)
         \o <<p.ttl, p.retransmit, p.period, p.period_div + 16 * p.cred>>
         \o LE16(IF BT_MESH_ADDR_IS_VIRTUAL(p.addr) /\ bt_mesh_va_get_idx_by_uuid(p.uuid) >= 0
                 THEN bt_mesh_va_get_idx_by_uuid(p.uuid) ELSE 0)

\* mod_set_bind: mod->keys after the value is loaded
mod_set_bind(value) == ReadArray(value, CONFIG_BT_MESH_MODEL_KEY_COUNT, BT_MESH_KEY_UNUSED)

\* mod_set_sub: mod->groups after the value is loaded
mod_set_sub(value) ==
    ReadArray(value, CONFIG_BT_MESH_MODEL_GROUP_COUNT, BT_MESH_ADDR_UNASSIGNED)

\* mod_set_sub_va: mod->uuids after the value is loaded
mod_set_sub_va(value) ==
    {bt_mesh_va_get_uuid_by_idx(value[2 * i - 1] + 256 * value[2 * i]) :
         i \in 1..(Len(value) \div 2)} \ {"none"}

\* a mod_set_pub that does not restore the credentials flag
mod_set_pub_without_cred(p, value) ==
    IF value = NoRecord THEN [p EXCEPT !.addr = BT_MESH_ADDR_UNASSIGNED, !.count = 0]
    ELSE [p EXCEPT !.addr = value[1] + 256 * value[2], !.key = value[3] + 256 * value[4],
                   !.ttl = value[5], !.period = value[7], !.retransmit = value[6],
                   !.period_div = value[8] % 16, !.count = 0]

\* mod_set_pub: mod->pub after the value is loaded; an empty value clears the publication
mod_set_pub(p, value) ==
    IF value = NoRecord
    THEN [p EXCEPT !.addr = BT_MESH_ADDR_UNASSIGNED, !.key = 0, !.cred = 0, !.ttl = 0,
                   !.period = 0, !.retransmit = 0, !.count = 0, !.uuid = "none"]
    ELSE [p EXCEPT !.uuid = IF BT_MESH_ADDR_IS_VIRTUAL(value[1] + 256 * value[2])
                            THEN bt_mesh_va_get_uuid_by_idx(value[9] + 256 * value[10])
                            ELSE @,
                   !.addr = value[1] + 256 * value[2],
                   !.key = value[3] + 256 * value[4],
                   !.cred = (value[8] \div 16) % 2,
                   !.ttl = value[5],
                   !.period = value[7],
                   !.retransmit = value[6],
                   !.period_div = value[8] % 16,
                   !.count = 0]

\* settings_delete(path)
settings_delete(store, path) == [store EXCEPT ![path] = NoRecord]

\* one call of the settings backend by the flush: a value is saved, or the record deleted
\* when there is nothing to keep; the backend fails for the paths in fail and then keeps
\* what it had
BackendWrite(st, mod, key, value, fail) ==
    [st EXCEPT
        !.records = IF encode_mod_path(mod, key) \in fail THEN @
                    ELSE IF value = NoRecord THEN settings_delete(@, encode_mod_path(mod, key))
                    ELSE settings_save_one(@, encode_mod_path(mod, key), value),
        !.writes = Append(@, [mod |-> mod, key |-> key,
                              kind |-> IF value = NoRecord THEN "delete" ELSE "save",
                              err |-> encode_mod_path(mod, key) \in fail])]

store_pending_mod_bind(st, mod, fail) ==
    BackendWrite(st, mod, "bind", BindValue(conf[mod].keys), fail)

store_pending_mod_sub(st, mod, fail) ==
    BackendWrite(st, mod, "sub", SubValue(conf[mod].groups), fail)

store_pending_mod_sub_va(st, mod, fail) ==
    BackendWrite(st, mod, "subv", SubVaValue(uuids[mod]), fail)

store_pending_mod_pub(st, mod, fail) == BackendWrite(st, mod, "pub", PubValue(mod, pub), fail)

\* mod->cb->pending_store(mod): the model stores its own data
PendingStoreCb(st, mod) ==
    [st EXCEPT !.writes = Append(@, [mod |-> mod, key |-> "data", kind |-> "callback",
                                     err |-> FALSE])]

\* mod->rt->flags &= ~flag
FlagCleared(st, mod, flag) == [st EXCEPT !.flags[mod] = @ \ {flag}]

\* the four sections of store_pending_mod, each taking the state the one before left
PendingBind(st, mod, fail) ==
    IF "BIND_PENDING" \in st.flags[mod]
    THEN store_pending_mod_bind(FlagCleared(st, mod, "BIND_PENDING"), mod, fail)
    ELSE st

\* a flush that stores the group subscriptions only
PendingSub_groups_only(st, mod, fail) ==
    IF "SUB_PENDING" \in st.flags[mod]
    THEN store_pending_mod_sub(FlagCleared(st, mod, "SUB_PENDING"), mod, fail)
    ELSE st

PendingSub(st, mod, fail) ==
    IF "SUB_PENDING" \in st.flags[mod]
    THEN store_pending_mod_sub_va(
             store_pending_mod_sub(FlagCleared(st, mod, "SUB_PENDING"), mod, fail), mod, fail)
    ELSE st

PendingPub(st, mod, fail) ==
    IF "PUB_PENDING" \in st.flags[mod]
    THEN store_pending_mod_pub(FlagCleared(st, mod, "PUB_PENDING"), mod, fail)
    ELSE st

PendingData(st, mod) ==
    IF "DATA_PENDING" \in st.flags[mod]
    THEN PendingStoreCb(FlagCleared(st, mod, "DATA_PENDING"), mod)
    ELSE st

\* store_pending_mod; a model without flags is left at once
store_pending_mod(st, mod, fail) ==
    IF st.flags[mod] = {} THEN st
    ELSE PendingData(PendingPub(PendingSub(PendingBind(st, mod, fail), mod, fail), mod, fail),
                     mod)

\* bt_mesh_model_foreach: the models of an element, the SIG models before the vendor models
ElemModelOrder(e) ==
    [i \in 1..(model_count(e) + vnd_model_count(e)) |->
        IF i <= model_count(e) THEN M(e, i - 1) ELSE V(e, i - 1 - model_count(e))]

RECURSIVE ModelOrderFrom(_)
ModelOrderFrom(e) == IF e >= elem_count THEN << >> ELSE ElemModelOrder(e) \o ModelOrderFrom(e + 1)

RECURSIVE StoreFrom(_, _, _)
StoreFrom(st, order, fail) ==
    IF order = << >> THEN st
    ELSE StoreFrom(store_pending_mod(st, Head(order), fail), Tail(order), fail)

\* bt_mesh_model_pending_store: the flags, the records and the backend calls made
bt_mesh_model_pending_store(fail) ==
    StoreFrom([flags |-> flags, records |-> mod_records, writes |-> << >>],
              ModelOrderFrom(0), fail)

\* bt_mesh_model_bind_store, _sub_store, _pub_store and _data_store_schedule: the flag set
PendingFlags == {"BIND_PENDING", "SUB_PENDING", "PUB_PENDING", "DATA_PENDING"}

\* one of the four mutators marks a section of a model
StoreSchedule(mod, flag) ==
    /\ registered
    /\ flags' = [flags EXCEPT ![mod] = @ \cup {flag}]
    /\ last_op' = [op |-> "store_schedule"]
    /\ UNCHANGED <<next, mod_rel_list, settings, registered, n_calls, ext_calls,
                   cor_calls, last_set, rd, req, runtime, publication, node>>

\* the deferred flush runs: bt_mesh_model_pending_store
PendingStore(fail) ==
    /\ registered
    /\ flags' = bt_mesh_model_pending_store(fail).flags
    /\ mod_records' = bt_mesh_model_pending_store(fail).records
    /\ last_op' = [op |-> "flush", before |-> flags, fail |-> fail,
                   writes |-> bt_mesh_model_pending_store(fail).writes]
    /\ UNCHANGED <<next, mod_rel_list, settings, registered, n_calls, ext_calls,
                   cor_calls, last_set, rd, req, runtime, publication, suspended, conf,
                   addrs, rt_idx>>

\* the Configuration Server binds a key to a model: the first unused entry takes it
ModBind(mod, key) ==
    /\ registered
    /\ \A i \in 1..Len(conf[mod].keys) : conf[mod].keys[i] # key
    /\ FirstUnused(conf[mod].keys, BT_MESH_KEY_UNUSED) # 0
    /\ conf' = [conf EXCEPT ![mod].keys[FirstUnused(conf[mod].keys, BT_MESH_KEY_UNUSED)] = key]
    /\ last_op' = [op |-> "conf"]
    /\ UNCHANGED <<next, flags, mod_rel_list, settings, registered, n_calls, ext_calls,
                   cor_calls, last_set, rd, req, runtime, publication, suspended,
                   mod_records, addrs, rt_idx>>

\* the Configuration Server unbinds a key: its entry is given back
ModUnbind(mod, key) ==
    /\ registered
    /\ \E i \in 1..Len(conf[mod].keys) : conf[mod].keys[i] = key
    /\ conf' = [conf EXCEPT ![mod].keys =
                   [i \in 1..Len(@) |-> IF @[i] = key THEN BT_MESH_KEY_UNUSED ELSE @[i]]]
    /\ last_op' = [op |-> "conf"]
    /\ UNCHANGED <<next, flags, mod_rel_list, settings, registered, n_calls, ext_calls,
                   cor_calls, last_set, rd, req, runtime, publication, suspended,
                   mod_records, addrs, rt_idx>>

\* the Configuration Server deletes a group address from the subscription list of a model
ModSubDel(mod, addr) ==
    /\ registered
    /\ addr \in groups[mod]
    /\ groups' = [groups EXCEPT ![mod] = @ \ {addr}]
    /\ conf' = [conf EXCEPT ![mod].groups =
                   [i \in 1..Len(@) |-> IF @[i] = addr THEN BT_MESH_ADDR_UNASSIGNED ELSE @[i]]]
    /\ last_op' = [op |-> "conf"]
    /\ UNCHANGED <<next, flags, mod_rel_list, settings, registered, n_calls, ext_calls,
                   cor_calls, last_set, rd, req, uuids, msg_cb, n_subs, publication,
                   suspended, mod_records, addrs, rt_idx>>

\* the Configuration Server sets the publication of the model that publishes
ModPubSet(p) ==
    /\ registered
    /\ timer = NoTimer
    /\ pub' = [pub EXCEPT !.addr = p.addr, !.key = p.key, !.ttl = p.ttl, !.cred = p.cred,
                          !.uuid = p.uuid, !.period = p.period, !.retransmit = p.retransmit,
                          !.period_div = p.period_div, !.count = 0]
    /\ last_op' = [op |-> "conf"]
    /\ UNCHANGED <<next, flags, mod_rel_list, settings, registered, n_calls, ext_calls,
                   cor_calls, last_set, rd, req, runtime, timer, tx, now, pubh, n_pub, node>>

\* the node restarts: the composition is registered again with the same initialisers and
\* the settings are loaded into the fresh models, mod_set being called for every record
\* the backend holds
Loaded(value, fresh, set) == IF value = NoRecord THEN fresh ELSE set

SettingsLoad ==
    /\ registered
    /\ timer = NoTimer
    /\ flags' = [m \in Models |-> flags[m] \ PendingFlags]
    /\ conf' = [m \in StoredModels |->
                   [keys |-> mod_set_bind(mod_records[encode_mod_path(m, "bind")]),
                    groups |-> mod_set_sub(mod_records[encode_mod_path(m, "sub")])]]
    /\ uuids' = [m \in Models |->
                    IF m \in StoredModels
                    THEN mod_set_sub_va(mod_records[encode_mod_path(m, "subv")])
                    ELSE {}]
    /\ groups' = [m \in Models |->
                     IF m \in StoredModels
                     THEN {conf'[m].groups[i] : i \in 1..CONFIG_BT_MESH_MODEL_GROUP_COUNT}
                          \ {BT_MESH_ADDR_UNASSIGNED}
                     ELSE {}]
    /\ pub' = Loaded(mod_records[encode_mod_path(PubModel, "pub")], NoPub,
                     mod_set_pub(NoPub, mod_records[encode_mod_path(PubModel, "pub")]))
    /\ last_op' = [op |-> "load", before |-> conf]
    /\ UNCHANGED <<next, mod_rel_list, settings, registered, n_calls, ext_calls, cor_calls,
                   last_set, rd, req, msg_cb, n_subs, timer, tx, now, pubh, n_pub,
                   suspended, mod_records, addrs, rt_idx>>

(***************************************************************************)
(* Publication: the timer of one model that publishes, M(1, 0).  Time is   *)
(* in milliseconds of uptime; the delayed work fires at its deadline.      *)
(***************************************************************************)
BT_MESH_PUB_TRANSMIT_COUNT(transmit) == transmit % 8

BT_MESH_PUB_TRANSMIT_INT(transmit) == ((transmit \div 8) + 1) * 50

BT_MESH_PUB_MSG_TOTAL(p) == BT_MESH_PUB_TRANSMIT_COUNT(p.retransmit) + 1

BT_MESH_PUB_MSG_NUM(p) == BT_MESH_PUB_MSG_TOTAL(p) - p.count

bt_mesh_model_pub_is_retransmission(p) ==
    p.count # BT_MESH_PUB_TRANSMIT_COUNT(p.retransmit)

RECURSIVE Pow2(_)
Pow2(n) == IF n = 0 THEN 1 ELSE 2 * Pow2(n - 1)

\* the period the period byte encodes, before the fast-period division
PubBasePeriod(period) ==
    CASE period \div 64 = 0 -> (period % 64) * 100
      [] period \div 64 = 1 -> (period % 64) * 1000
      [] period \div 64 = 2 -> (period % 64) * 10 * 1000
      [] period \div 64 = 3 -> (period % 64) * 600 * 1000

\* a period that is divided without the floor of 100 ms
bt_mesh_model_pub_period_get_no_floor(p) ==
    IF p.fast_period THEN PubBasePeriod(p.period) \div Pow2(p.period_div)
    ELSE PubBasePeriod(p.period)

bt_mesh_model_pub_period_get(p) ==
    IF p.fast_period
    THEN IF PubBasePeriod(p.period) = 0 THEN 0
         ELSE IF PubBasePeriod(p.period) \div Pow2(p.period_div) > 100
              THEN PubBasePeriod(p.period) \div Pow2(p.period_div) ELSE 100
    ELSE PubBasePeriod(p.period)

\* elapsed = k_uptime_get_32() - pub->period_start; the uptimes of the model are far from
\* the 32-bit wrap and period_start is never ahead of the uptime
Elapsed(p, t) == t - p.period_start

\* the period next_period measures against while retransmissions are left
RetransmitSpan(p) ==
    IF p.count # 0 THEN BT_MESH_PUB_TRANSMIT_INT(p.retransmit) * BT_MESH_PUB_MSG_NUM(p)
    ELSE 0

\* next_period took one of its two "too short" branches
NextPeriodLate(p, t) ==
    IF RetransmitSpan(p) # 0 THEN Elapsed(p, t) >= RetransmitSpan(p)
    ELSE bt_mesh_model_pub_period_get(p) # 0
         /\ Elapsed(p, t) >= bt_mesh_model_pub_period_get(p)

\* a next_period that returns the smallest delay when the retransmissions are late
next_period_at_once_when_late(p, t) ==
    IF RetransmitSpan(p) # 0
    THEN IF Elapsed(p, t) >= RetransmitSpan(p) THEN 1
         ELSE RetransmitSpan(p) - Elapsed(p, t)
    ELSE IF bt_mesh_model_pub_period_get(p) = 0 THEN 0
    ELSE IF Elapsed(p, t) >= bt_mesh_model_pub_period_get(p) THEN 1
    ELSE bt_mesh_model_pub_period_get(p) - Elapsed(p, t)

\* a next_period that forgets the time already spent
next_period_whole(p, t) ==
    IF RetransmitSpan(p) # 0
    THEN IF Elapsed(p, t) >= RetransmitSpan(p) THEN BT_MESH_PUB_TRANSMIT_INT(p.retransmit)
         ELSE RetransmitSpan(p)
    ELSE IF bt_mesh_model_pub_period_get(p) = 0 THEN 0
    ELSE IF Elapsed(p, t) >= bt_mesh_model_pub_period_get(p) THEN 1
    ELSE bt_mesh_model_pub_period_get(p)

\* next_period at uptime t: the delay to the next firing of the timer, 0 for none
next_period(p, t) ==
    IF RetransmitSpan(p) # 0
    THEN IF Elapsed(p, t) >= RetransmitSpan(p) THEN BT_MESH_PUB_TRANSMIT_INT(p.retransmit)
         ELSE RetransmitSpan(p) - Elapsed(p, t)
    ELSE IF bt_mesh_model_pub_period_get(p) = 0 THEN 0
    ELSE IF Elapsed(p, t) >= bt_mesh_model_pub_period_get(p) THEN 1
    ELSE bt_mesh_model_pub_period_get(p) - Elapsed(p, t)

\* k_work_schedule: a pending timer keeps its deadline
k_work_schedule(tm, t, delay) == IF tm = NoTimer THEN t + delay ELSE tm

\* a publish_sent that schedules the timer whatever next_period returns
publish_sent_always(p, tm, t) == k_work_schedule(tm, t, next_period(p, t))

\* publish_sent at uptime t: the deadline of the timer after it
publish_sent(p, tm, t) ==
    IF next_period(p, t) # 0 THEN k_work_schedule(tm, t, next_period(p, t)) ELSE tm

\* the transport sends one SDU after another: the uptime at which an SDU handed over at t
\* that takes d to send is sent
SendEndTime(queue, t, d) ==
    IF queue = << >> \/ queue[Len(queue)] < t THEN t + d ELSE queue[Len(queue)] + d

NewSeries(kind, t, count) ==
    [NoSeries EXCEPT !.kind = kind, !.start = t, !.during = count > 0,
                     !.outstanding = count]

Closed(series, by, t) == [series EXCEPT !.ended_by = by, !.next = t]

\* a publish call that leaves the counter of a series in progress alone
bt_mesh_model_publish_keep(p, t) ==
    [p EXCEPT !.count = IF p.count > 0 THEN p.count ELSE BT_MESH_PUB_MSG_TOTAL(p),
              !.period_start = t]

\* bt_mesh_model_publish at uptime t, past its checks: the publication state after it
bt_mesh_model_publish(p, t) ==
    [p EXCEPT !.count = BT_MESH_PUB_MSG_TOTAL(p), !.period_start = t]

\* a pub_period_start that leaves the retransmissions in place when the update fails
pub_period_start_keeps_count(p, t, update_err) ==
    [p EXCEPT !.count = BT_MESH_PUB_TRANSMIT_COUNT(p.retransmit), !.period_start = t]

\* pub_period_start at uptime t: without an update callback it returns once the count is
\* set; with one, the callback runs, period_start is written and a failure clears the count
pub_period_start(p, t, update_err) ==
    IF ~p.update THEN [p EXCEPT !.count = BT_MESH_PUB_TRANSMIT_COUNT(p.retransmit)]
    ELSE [p EXCEPT !.count = IF update_err THEN 0
                             ELSE BT_MESH_PUB_TRANSMIT_COUNT(p.retransmit),
                   !.period_start = t]

\* RANDOM_DELAY_SHORT, RANDOM_DELAY_LONG
RANDOM_DELAY_SHORT == 30

RANDOM_DELAY_LONG == 480

\* pub_delay_get, CONFIG_BT_MESH_DELAYABLE_PUBLICATION set; num is the 16-bit number
\* bt_rand gives
pub_delay_get(random_delay_window, num) == 20 + (num % random_delay_window)

\* mod_publish delays the first publication of a period: the period has started without
\* an error and the publication is delayable (k_work_reschedule does not fail)
Delayed(p, update_err) == p.count = 0 /\ p.delayable /\ ~(p.update /\ update_err)

\* a mod_publish that does not make up for the firing spent on the delay
ModPublishState_no_increment(p, t, update_err) ==
    IF p.count # 0 THEN [p EXCEPT !.count = p.count - 1]
    ELSE pub_period_start(p, t, update_err)

\* the publication state mod_publish leaves
ModPublishState(p, t, update_err) ==
    IF p.count # 0 THEN [p EXCEPT !.count = p.count - 1]
    ELSE IF Delayed(p, update_err)
    THEN [pub_period_start(p, t, update_err) EXCEPT !.count = @ + 1]
    ELSE pub_period_start(p, t, update_err)

\* mod_publish calls the update callback
UpdateCalled(p) ==
    IF p.count # 0
    THEN /\ p.retr_update
         /\ p.update
         /\ bt_mesh_model_pub_is_retransmission([p EXCEPT !.count = p.count - 1])
    ELSE p.update

\* publication restored from the settings and committed, for a publication context with
\* or without an update callback, delayable or not: commit_mod starts the timer of a model
\* that has an update callback and a period
PubCommitCtx(period, retransmit, retr_update, update, delayable, num) ==
    /\ registered
    /\ pub.addr = 0
    /\ pub' = [pub EXCEPT !.addr = 49152, !.period = period, !.retransmit = retransmit,
                          !.retr_update = retr_update, !.update = update,
                          !.delayable = delayable]
    /\ timer' = IF update /\ bt_mesh_model_pub_period_get(pub') > 0
                THEN k_work_schedule(timer, now,
                                     bt_mesh_model_pub_period_get(pub') +
                                     (IF delayable THEN pub_delay_get(RANDOM_DELAY_LONG, num)
                                      ELSE 0))
                ELSE timer
    /\ last_op' = [op |-> "commit"]
    /\ UNCHANGED <<next, flags, mod_rel_list, settings, registered, n_calls, ext_calls,
                   cor_calls, last_set, rd, req, runtime, tx, now, pubh, n_pub, node>>

\* the same for a publication context with an update callback that is not delayable
PubCommit(period, retransmit, retr_update) ==
    PubCommitCtx(period, retransmit, retr_update, TRUE, FALSE, 0)

\* the application calls publish at most this many times
MaxPublish == 2

\* nothing is due before uptime t
NothingDueBefore(t) ==
    /\ IF timer = NoTimer THEN TRUE ELSE t <= timer
    /\ IF tx = << >> THEN TRUE ELSE t <= Head(tx)

\* BT_MESH_TX_SDU_MAX: the longest SDU the transport takes
BT_MESH_TX_SDU_MAX == 72

\* pub->msg is NULL
NoMsg == -1

\* bt_mesh_model_publish: what its checks return for a model and the length of pub->msg
PublishStatus(mod, p, msg_len) ==
    IF mod # PubModel THEN "ENOTSUP"
    ELSE IF p.addr = BT_MESH_ADDR_UNASSIGNED THEN "EADDRNOTAVAIL"
    ELSE IF msg_len = NoMsg \/ msg_len = 0 THEN "EINVAL"
    ELSE IF msg_len + BT_MESH_MIC_SHORT > BT_MESH_TX_SDU_MAX THEN "EMSGSIZE"
    ELSE "OK"

\* a publish call that starts the series before it looks at the message
PublishState_before_msg_checks(mod, p, msg_len, t) ==
    IF mod # PubModel \/ p.addr = BT_MESH_ADDR_UNASSIGNED THEN p
    ELSE bt_mesh_model_publish(p, t)

\* the publication state a publish call at uptime t leaves
PublishState(mod, p, msg_len, t) ==
    IF PublishStatus(mod, p, msg_len) = "OK" THEN bt_mesh_model_publish(p, t) ELSE p

\* the application calls bt_mesh_model_publish for a model, dt after the last event; a
\* delayable publication waits 20 + num % 480 ms for the timer
Publish(mod, msg_len, dt, num) ==
    /\ registered
    /\ n_pub < MaxPublish
    /\ NothingDueBefore(now + dt)
    /\ n_pub' = n_pub + 1
    /\ now' = now + dt
    /\ pub' = PublishState(mod, pub, msg_len, now')
    /\ IF PublishStatus(mod, pub, msg_len) # "OK"
       THEN UNCHANGED <<timer, pubh>>
       ELSE /\ timer' = IF pub.delayable THEN now' + pub_delay_get(RANDOM_DELAY_LONG, num)
                        ELSE now'
            /\ pubh' = [cur |-> NewSeries("publish", now', pub.count),
                        done |-> Closed(pubh.cur, "publish", now')]
    /\ last_op' = [op |-> "publish", mod |-> mod, msg_len |-> msg_len,
                   ret |-> PublishStatus(mod, pub, msg_len)]
    /\ UNCHANGED <<next, flags, mod_rel_list, settings, registered, n_calls, ext_calls,
                   cor_calls, last_set, rd, req, runtime, tx, node>>

\* the model stops following the timer after this uptime
MaxTime == 2100

\* the series after mod_publish has run at uptime t: the update callback failed, or an SDU
\* was handed to the transport, which took or refused it
SeriesAfter(p, t, update_err, handed, send_err) ==
    IF p.count # 0
    THEN [cur |-> [pubh.cur EXCEPT !.update_err = @ \/ update_err,
                                   !.send_err = @ \/ send_err,
                                   !.sent = IF handed THEN Append(@, t) ELSE @],
          done |-> pubh.done]
    ELSE [cur |-> [NewSeries("period", t, 0) EXCEPT
                       !.update_err = update_err,
                       !.send_err = send_err,
                       !.sent = IF handed THEN <<t>> ELSE << >>],
          done |-> Closed(pubh.cur, "period", t)]

\* a mod_publish that goes on while the node is suspended
Abandoned_unassigned_only(p, susp) == p.addr = BT_MESH_ADDR_UNASSIGNED

\* mod_publish finds the publication no longer active and abandons the timer
Abandoned(p, susp) == p.addr = BT_MESH_ADDR_UNASSIGNED \/ susp

\* the timer fires: mod_publish.  update_err and send_err are what the update callback and
\* bt_mesh_trans_send return, d is the time the transport takes to send the SDU, num the
\* number bt_rand gives when the first publication of a period is delayed
ModPublish(update_err, send_err, d, num) ==
    /\ timer # NoTimer
    /\ timer <= MaxTime
    /\ IF tx = << >> THEN TRUE ELSE timer <= Head(tx)
    /\ now' = timer
    /\ IF Abandoned(pub, suspended)
       THEN /\ timer' = NoTimer
            /\ UNCHANGED <<pub, tx, pubh>>
            /\ last_op' = [op |-> "mod_publish", abandoned |-> TRUE, first |-> FALSE,
                           update_failed |-> FALSE, send_failed |-> FALSE,
                           delayed |-> FALSE, num |-> 0]
       ELSE /\ pub' = ModPublishState(pub, timer, update_err)
            /\ IF UpdateCalled(pub) /\ update_err
               THEN \* the update failed: nothing is sent, publish_sent schedules the timer
                    /\ timer' = publish_sent(pub', NoTimer, now')
                    /\ tx' = tx
                    /\ pubh' = SeriesAfter(pub, now', TRUE, FALSE, FALSE)
               ELSE IF Delayed(pub, update_err)
               THEN \* pub_delay_schedule: nothing is sent at this firing
                    /\ timer' = now' + pub_delay_get(RANDOM_DELAY_SHORT, num)
                    /\ tx' = tx
                    /\ pubh' = SeriesAfter(pub, now', FALSE, FALSE, FALSE)
               ELSE IF send_err
               THEN \* publish_transmit failed: publish_sent schedules the timer
                    /\ timer' = publish_sent(pub', NoTimer, now')
                    /\ tx' = tx
                    /\ pubh' = SeriesAfter(pub, now', FALSE, TRUE, TRUE)
               ELSE /\ timer' = NoTimer
                    /\ tx' = Append(tx, SendEndTime(tx, now', d))
                    /\ pubh' = SeriesAfter(pub, now', FALSE, TRUE, FALSE)
            /\ last_op' = [op |-> "mod_publish", abandoned |-> FALSE,
                           first |-> pub.count = 0,
                           update_failed |-> UpdateCalled(pub) /\ update_err,
                           send_failed |-> /\ ~(UpdateCalled(pub) /\ update_err)
                                           /\ ~Delayed(pub, update_err)
                                           /\ send_err,
                           delayed |-> Delayed(pub, update_err),
                           num |-> IF Delayed(pub, update_err) THEN num ELSE 0]
    /\ UNCHANGED <<next, flags, mod_rel_list, settings, registered, n_calls, ext_calls,
                   cor_calls, last_set, rd, req, runtime, n_pub, node>>

\* the transport has sent an SDU: publish_sent
PublishSent ==
    /\ tx # << >>
    /\ IF timer = NoTimer THEN TRUE ELSE Head(tx) <= timer
    /\ now' = Head(tx)
    /\ tx' = Tail(tx)
    /\ timer' = publish_sent(pub, timer, now')
    /\ pubh' = [pubh EXCEPT !.cur.late = @ \/ NextPeriodLate(pub, now')]
    /\ last_op' = [op |-> "publish_sent"]
    /\ UNCHANGED <<next, flags, mod_rel_list, settings, registered, n_calls, ext_calls,
                   cor_calls, last_set, rd, req, runtime, pub, n_pub, node>>

\* bt_mesh_suspend sets BT_MESH_SUSPENDED; a timer whose cancellation fails stays pending
Suspend ==
    /\ registered
    /\ ~suspended
    /\ suspended' = TRUE
    /\ last_op' = [op |-> "suspend"]
    /\ UNCHANGED <<next, flags, mod_rel_list, settings, registered, n_calls, ext_calls,
                   cor_calls, last_set, rd, req, runtime, publication, conf, mod_records,
                   addrs, rt_idx>>

\* the publication record of the model was deleted and the settings are loaded: mod_set_pub
\* with an empty value, which leaves the timer as it is
ModSetPubEmpty ==
    /\ registered
    /\ pub.addr # BT_MESH_ADDR_UNASSIGNED
    /\ pub' = mod_set_pub(pub, NoRecord)
    /\ last_op' = [op |-> "pub_cleared"]
    /\ UNCHANGED <<next, flags, mod_rel_list, settings, registered, n_calls, ext_calls,
                   cor_calls, last_set, rd, req, runtime, timer, tx, now, pubh, n_pub, node>>

\* bt_mesh_model_pub_period_get for a publication with the given period byte, fast_period
\* and period_div; the function keeps no state, so one call is followed from each state
PubPeriodGet(period, fast_period, period_div) ==
    /\ last_op.op # "period_get"
    /\ last_op' = [op |-> "period_get", period |-> period, fast_period |-> fast_period,
                   period_div |-> period_div,
                   ret |-> bt_mesh_model_pub_period_get(
                               [NoPub EXCEPT !.period = period, !.fast_period = fast_period,
                                             !.period_div = period_div])]
    /\ UNCHANGED <<next, flags, mod_rel_list, settings, registered, n_calls, ext_calls,
                   cor_calls, last_set, rd, req, runtime, publication, node>>

(***************************************************************************)
(* Provisioning: the addresses of the node and of its elements.            *)
(***************************************************************************)
\* bt_mesh_comp_provision(addr): the addresses afterwards; addr++ is done on a uint16_t
bt_mesh_comp_provision(addr) ==
    [primary |-> addr, elem |-> [i \in 0..(elem_count - 1) |-> (addr + i) % 65536]]

\* an unprovision that forgets the elements
bt_mesh_comp_unprovision_primary_only(a) == [a EXCEPT !.primary = BT_MESH_ADDR_UNASSIGNED]

\* bt_mesh_comp_unprovision(): the addresses afterwards
bt_mesh_comp_unprovision(a) ==
    [primary |-> BT_MESH_ADDR_UNASSIGNED,
     elem |-> [i \in 0..(elem_count - 1) |-> BT_MESH_ADDR_UNASSIGNED]]

\* bt_mesh_elem_find(addr): the index of the element returned, -1 for NULL
bt_mesh_elem_find(a, addr) ==
    IF ~BT_MESH_ADDR_IS_UNICAST(addr) THEN -1
    ELSE IF (addr - a.elem[0]) % 65536 >= elem_count THEN -1
    ELSE (addr - a.elem[0]) % 65536

\* the node is provisioned with a unicast address; provisioning a provisioned node is
\* refused before bt_mesh_comp_provision is reached
CompProvision(addr) ==
    /\ registered
    /\ addrs.primary = BT_MESH_ADDR_UNASSIGNED
    /\ addrs' = bt_mesh_comp_provision(addr)
    /\ last_op' = [op |-> "provision", addr |-> addr]
    /\ UNCHANGED <<next, flags, mod_rel_list, settings, registered, n_calls, ext_calls,
                   cor_calls, last_set, rd, req, runtime, publication, suspended, conf,
                   mod_records, rt_idx>>

\* the node is reset
CompUnprovision ==
    /\ registered
    /\ addrs' = bt_mesh_comp_unprovision(addrs)
    /\ last_op' = [op |-> "unprovision", was |-> addrs.primary]
    /\ UNCHANGED <<next, flags, mod_rel_list, settings, registered, n_calls, ext_calls,
                   cor_calls, last_set, rd, req, runtime, publication, suspended, conf,
                   mod_records, rt_idx>>

\* bt_mesh_elem_find(addr)
ElemFind(addr) ==
    /\ registered
    /\ last_op' = [op |-> "elem_find", addr |-> addr, ret |-> bt_mesh_elem_find(addrs, addr)]
    /\ UNCHANGED <<next, flags, mod_rel_list, settings, registered, n_calls, ext_calls,
                   cor_calls, last_set, rd, req, runtime, publication, node>>

(***************************************************************************)
(* Sending: bt_mesh_model_send, in a build with both op-aggregators and    *)
(* with delayable messages.  What the op-aggregators accept and what the   *)
(* function called last returns are inputs.                                *)
(***************************************************************************)
\* bt_mesh_has_addr(addr) && BT_MESH_ADDR_IS_UNICAST(addr)
IsOwnUnicast(a, addr) == BT_MESH_ADDR_IS_UNICAST(addr) /\ bt_mesh_elem_find(a, addr) # -1

\* a bt_mesh_model_send that checks the key before it asks the op-aggregators
bt_mesh_model_send_key_first(model, ctx, agg, a) ==
    IF ~bt_mesh_model_has_key(model, ctx.app_idx) THEN [sink |-> "none", ret |-> "EINVAL"]
    ELSE IF agg.srv_accept THEN [sink |-> "op_agg_srv", ret |-> agg.ret]
    ELSE IF agg.cli_accept THEN [sink |-> "op_agg_cli", ret |-> agg.ret]
    ELSE IF ctx.rnd_delay /\ ~IsOwnUnicast(a, ctx.addr)
    THEN [sink |-> "delayable_msg", ret |-> agg.ret]
    ELSE [sink |-> "access_send", ret |-> agg.ret]

\* bt_mesh_model_send: the function the message is handed to and the value returned
bt_mesh_model_send(model, ctx, agg, a) ==
    IF agg.srv_accept THEN [sink |-> "op_agg_srv", ret |-> agg.ret]
    ELSE IF agg.cli_accept THEN [sink |-> "op_agg_cli", ret |-> agg.ret]
    ELSE IF ~bt_mesh_model_has_key(model, ctx.app_idx) THEN [sink |-> "none", ret |-> "EINVAL"]
    ELSE IF ctx.rnd_delay /\ ~IsOwnUnicast(a, ctx.addr)
    THEN [sink |-> "delayable_msg", ret |-> agg.ret]
    ELSE [sink |-> "access_send", ret |-> agg.ret]

\* a model sends a message; the function keeps no state, so one call follows another
\* operation
ModelSend(model, ctx, agg) ==
    /\ registered
    /\ last_op.op # "send"
    /\ last_op' = [op |-> "send", model |-> model, ctx |-> ctx, agg |-> agg,
                   sink |-> bt_mesh_model_send(model, ctx, agg, addrs).sink,
                   ret |-> bt_mesh_model_send(model, ctx, agg, addrs).ret]
    /\ UNCHANGED <<next, flags, mod_rel_list, settings, registered, n_calls, ext_calls,
                   cor_calls, last_set, rd, req, runtime, publication, node>>

(***************************************************************************)
(* Specifications                                                          *)
(***************************************************************************)
\* the relation graph during model initialisation
NextRel ==
    \/ \E c \in ExtendCalls : Extend(c[1], c[2])
    \/ \E c \in CorrespondCalls : Correspond(c[1], c[2])

SpecRel == Init /\ [][NextRel]_vars

\* the relations that shape page 1, and whole reads of the live pages
PageExtendCalls ==
    { <<M(3, 0), M(0, 0)>>, <<M(4, 0), M(4, 1)>>, <<M(4, 0), M(0, 1)>>, <<V(0, 0), M(1, 0)>> }

PageCorrespondCalls == { <<M(4, 0), M(1, 0)>> }

LivePages == {0, 1, 2}

\* BT_MESH_TX_SDU_MAX of 380 bytes less the 11 bytes of opcode, page, offset, total and MIC
FullRoom == 369

ElemRooms == {14, 17, 20, 25, 30, 60}

NextPage ==
    \/ \E c \in PageExtendCalls : Extend(c[1], c[2])
    \/ \E c \in PageCorrespondCalls : Correspond(c[1], c[2])
    \/ CompRegister
    \/ \E p \in LivePages, room \in ElemRooms : RecvCompDataGet(p, room)
    \/ HandleCompDataGet
    \/ \E p \in LivePages : RecvLargeCompDataGet(p, 0, FullRoom)
    \/ RecvLargeCompDataGetNext
    \/ HandleLargeCompDataGet

SpecPage == Init /\ [][NextPage]_vars

\* reads of the live pages in several messages, from any offset
StreamExtendCalls == { <<V(0, 0), M(1, 0)>> }

StreamCorrespondCalls == { <<V(0, 0), M(1, 0)>> }

StreamRooms == {5, 16}

NextStream ==
    \/ \E c \in StreamExtendCalls : Extend(c[1], c[2])
    \/ \E c \in StreamCorrespondCalls : Correspond(c[1], c[2])
    \/ CompRegister
    \/ \E p \in LivePages, room \in StreamRooms :
          \E offset \in 0..bt_mesh_comp_page_size(settings, p) :
              RecvLargeCompDataGet(p, offset, room)
    \/ RecvLargeCompDataGetNext
    \/ HandleLargeCompDataGet

SpecStream == Init /\ [][NextStream]_vars

\* the high pages: what the application stages for the next term, and reads of it.
\* Blob128 is a page 0 of two elements (one SIG model; two SIG models), Blob129 a page 1
\* of two elements, Blob130 a page 2 of two records.
Blob128 ==
    <<171, 1, 2, 0, 3, 0, 5, 0, 1, 0>> \o <<1, 0, 1, 0, 0, 16>> \o <<2, 0, 2, 0, 2, 16, 3, 16>>

Blob129 == <<1, 0, 0>> \o <<2, 0, 4, 1, 0>>

Blob130 == <<1, 0, 1, 0, 0, 1, 0, 1, 0, 170>> \o <<2, 0, 1, 1, 0, 0, 0, 0>>

\* the live page 0, which depends on nothing but the composition
LivePage0 == bt_mesh_comp_data_get_page_0(NewBuf(Unlimited, 0), TRUE).w.out

\* the data bt_mesh_comp_data_set is called with, per page; <<7>> is a one-byte blob
StagedData(page) ==
    CASE page = 128 -> {LivePage0, Blob128, <<7>>, << >>}
      [] page = 129 -> {Blob129, << >>}
      [] page = 130 -> {Blob130}

HighPages == {128, 129, 130}

StoreExtendCalls == { <<M(3, 0), M(0, 0)>> }

StoreRooms == {14, 17, 21, 30}

NextStore ==
    \/ \E c \in StoreExtendCalls : Extend(c[1], c[2])
    \/ CompRegister
    \/ \E p \in HighPages : \E data \in StagedData(p) : CompDataSet(p, data)
    \/ \E p \in HighPages : CompPageSize(p)
    \/ Comp128Changed
    \/ Comp128ElemCount
    \/ \E p \in HighPages, room \in StoreRooms : RecvCompDataGet(p, room)
    \/ HandleCompDataGet
    \/ \E p \in HighPages : RecvLargeCompDataGet(p, 0, FullRoom)
    \/ RecvLargeCompDataGetNext
    \/ HandleLargeCompDataGet

SpecStore == Init /\ [][NextStore]_vars

\* message dispatch.  Element 4 holds two models of one ring; M(1, 0) joins the ring from
\* another element.
RecvExtendCalls == { <<M(4, 0), M(4, 1)>>, <<M(4, 1), M(1, 0)>> }

\* a group address and the all-relays fixed group address
GroupAddr == 49152

FixedGroupAddr == 65534

VirtualAddr == 32768

AllNodesAddr == 65535

RecvSubs == { <<M(1, 0), GroupAddr>>, <<M(4, 1), GroupAddr>>, <<M(4, 1), FixedGroupAddr>> }

RecvVaSubs == { <<M(4, 1), "label">> }

\* the destinations of the messages received: the elements 0 and 4, the two unicast
\* addresses next to the node's range, a group, two fixed groups and a virtual address
RecvDsts ==
    { ElemAddr(0), ElemAddr(4), ElemAddr(elem_count), dev_primary_addr - 1,
      GroupAddr, FixedGroupAddr, AllNodesAddr, VirtualAddr }

RecvKeys == {3, 7}

RecvCtx ==
    { [app_idx |-> k, recv_dst |-> d, uuid |-> IF d = VirtualAddr THEN "label" ELSE "none"] :
          k \in RecvKeys, d \in RecvDsts }

\* the access payloads received: opcode octets, then parameters
RecvData ==
    { <<127>>, <<130>>, <<193, 89>>, <<130, 7>>, <<130, 2, 1>>, <<130, 2, 1, 0>>,
      <<130, 2, 9, 0>>, <<193, 89, 0>>, <<193, 89, 0, 5>> }

NextRecv ==
    \/ \E c \in RecvExtendCalls : Extend(c[1], c[2])
    \/ CompRegister
    \/ \E cb \in BOOLEAN : MsgCbSet(cb)
    \/ \E c \in RecvSubs : ModSubAdd(c[1], c[2])
    \/ \E c \in RecvVaSubs : ModSubVaAdd(c[1], c[2])
    \/ \E ctx \in RecvCtx, data \in RecvData : AccessRecv(ctx, data)

SpecRecv == Init /\ [][NextRecv]_vars

\* publication: period bytes 0x41 (1 s) and 0x00 (no periodic publication), retransmit
\* bytes 0x2A (two retransmissions 300 ms apart) and 0x00 (none)
PubPeriods == {65, 0}

PubRetransmits == {42, 0}

PublishDelays == {10, 100}

\* the time the transport takes to send an SDU: less and more than the 300 ms interval
SendTimes == {20, 350}

\* the length of the publication message of the application
ValidMsgLen == 3

NextPub ==
    \/ CompRegister
    \/ \E period \in PubPeriods, retransmit \in PubRetransmits, retr_update \in BOOLEAN :
          PubCommit(period, retransmit, retr_update)
    \/ \E dt \in PublishDelays : Publish(PubModel, ValidMsgLen, dt, 0)
    \/ \E update_err \in BOOLEAN, send_err \in BOOLEAN, d \in SendTimes :
          ModPublish(update_err, send_err, d, 0)
    \/ PublishSent

SpecPub == Init /\ [][NextPub]_vars

\* a delayable publication with period 0x41: the numbers bt_rand gives cover both ends of
\* the short window; the update callback may fail and the application may publish
DelayNums == {0, 29, 30, 65535}

NextPubDelay ==
    \/ CompRegister
    \/ \E retransmit \in PubRetransmits, retr_update \in BOOLEAN, num \in {0, 65535} :
          PubCommitCtx(65, retransmit, retr_update, TRUE, TRUE, num)
    \/ Publish(PubModel, ValidMsgLen, 10, 0)
    \/ \E update_err \in BOOLEAN, num \in DelayNums : ModPublish(update_err, FALSE, 20, num)
    \/ PublishSent

SpecPubDelay == Init /\ [][NextPubDelay]_vars

\* periodic publication of a publication context with and without an update callback; the
\* timer of a context without one is started by a publish call
NextPubUpdate ==
    \/ CompRegister
    \/ \E retransmit \in PubRetransmits, update \in BOOLEAN :
          PubCommitCtx(65, retransmit, FALSE, update, FALSE, 0)
    \/ Publish(PubModel, ValidMsgLen, 10, 0)
    \/ \E update_err \in BOOLEAN : ModPublish(update_err, FALSE, 20, 0)
    \/ PublishSent

SpecPubUpdate == Init /\ [][NextPubUpdate]_vars

\* publish calls for the model that publishes and for one without a publication context,
\* with no message, an empty one, the longest that fits and the first that does not
MsgLens ==
    {NoMsg, 0, ValidMsgLen, BT_MESH_TX_SDU_MAX - BT_MESH_MIC_SHORT,
     BT_MESH_TX_SDU_MAX - BT_MESH_MIC_SHORT + 1}

PublishCalls == {<<PubModel, len>> : len \in MsgLens} \cup {<<M(2, 0), ValidMsgLen>>}

\* the publication while the node is suspended or its publication record is deleted; the
\* period is 0, so that the timer runs for the publish calls only
NextPubCtl ==
    \/ CompRegister
    \/ \E retransmit \in PubRetransmits : PubCommit(0, retransmit, FALSE)
    \/ \E call \in PublishCalls : Publish(call[1], call[2], 10, 0)
    \/ ModPublish(FALSE, FALSE, 20, 0)
    \/ PublishSent
    \/ Suspend
    \/ ModSetPubEmpty

SpecPubCtl == Init /\ [][NextPubCtl]_vars

\* the flush: every section of two models is marked, one key is bound and unbound, and the
\* backend fails for the bindings or the subscriptions of the model that publishes
FailSets ==
    { {}, {encode_mod_path(PubModel, "bind")}, {encode_mod_path(PubModel, "sub")} }

NextFlush ==
    \/ \E call \in StreamExtendCalls : Extend(call[1], call[2])
    \/ CompRegister
    \/ ModBind(PubModel, 3)
    \/ ModUnbind(PubModel, 3)
    \/ \E mod \in StoredModels, flag \in PendingFlags : StoreSchedule(mod, flag)
    \/ \E fail \in FailSets : PendingStore(fail)

SpecFlush == Init /\ [][NextFlush]_vars

\* the stored configuration of the model that publishes: two keys and two group addresses
\* are added and one of each is taken away again, which leaves an unused entry before a
\* used one; the publication is set to a group and to a virtual address
StoredKeys == {3, 7}

StoredGroups == {GroupAddr, GroupAddr + 1}

PubConfs ==
    { [NoPub EXCEPT !.addr = GroupAddr, !.key = 3, !.ttl = 7, !.cred = 1, !.period = 65,
                    !.retransmit = 42, !.period_div = 5],
      [NoPub EXCEPT !.addr = VirtualAddr, !.key = 7, !.ttl = 255, !.uuid = "label",
                    !.period = 130] }

RoundTripFlags == {"BIND_PENDING", "SUB_PENDING", "PUB_PENDING"}

NextRoundTrip ==
    \/ CompRegister
    \/ \E key \in StoredKeys : ModBind(PubModel, key)
    \/ ModUnbind(PubModel, 3)
    \/ \E addr \in StoredGroups : ModSubAdd(PubModel, addr)
    \/ ModSubDel(PubModel, GroupAddr)
    \/ \E p \in PubConfs : ModPubSet(p)
    \/ \E flag \in RoundTripFlags : StoreSchedule(PubModel, flag)
    \/ PendingStore({})
    \/ SettingsLoad

SpecRoundTrip == Init /\ [][NextRoundTrip]_vars

\* every period byte, with and without fast_period, and every value of the 4-bit period_div
NextPeriod ==
    \E period \in 0..255, fast_period \in BOOLEAN, period_div \in 0..15 :
        PubPeriodGet(period, fast_period, period_div)

SpecPeriod == Init /\ [][NextPeriod]_vars

\* provisioning: the unicast addresses the provisioner gives, the last ones reaching the end
\* of the unicast range
ProvAddrs == {1, 16, 32764, 32767}

\* the addresses looked up: around 0, around the primary addresses and around the end of
\* the unicast range, a group address and the all-nodes address
FindAddrs == (0..24) \cup (32760..32772) \cup {49152, 65535}

NextProv ==
    \/ CompRegister
    \/ \E addr \in ProvAddrs : CompProvision(addr)
    \/ CompUnprovision
    \/ \E addr \in FindAddrs : ElemFind(addr)

SpecProv == Init /\ [][NextProv]_vars



\* Models Metadata: page 128 is staged with nothing, with the bytes of page 0 and with
\* other bytes; the page bytes asked for lie on both sides of 128
MetadataData ==
    { << >>,
      <<0, 1, 89, 0, 1, 0, 1, 2, 0, 2, 0, 5, 6, 1, 0, 0, 16, 1, 1, 0, 1, 0, 7,
        0, 0, 0, 0, 0, 0>>,
      <<1, 2, 0, 4, 0, 1>> }

MetadataReqPages == {0, 1, 2, 127, 128, 129, 200, 255}

MetadataOffsets == {0, 1, 3, 10, 11}

MetadataRooms == {0, 1, 4, FullRoom}

NextMeta ==
    \/ CompRegister
    \/ \E data \in MetadataData : ModelsMetadataSet(data)
    \/ \E page \in MetadataReqPages, offset \in MetadataOffsets, room \in MetadataRooms :
           ModelsMetadataGet(page, offset, room)

SpecMeta == Init /\ [][NextMeta]_vars

\* sending: a model bound to any device key, one bound to one key and one bound to two; the
\* message goes to an address of the node, to another node or to a group
SendModels == {M(0, 0), M(1, 0), M(3, 0)}

SendCtx ==
    { [app_idx |-> k, addr |-> d, rnd_delay |-> r] :
          k \in {3, 7, BT_MESH_KEY_DEV}, d \in {dev_primary_addr, 5, GroupAddr},
          r \in BOOLEAN }

SendAgg ==
    { [srv_accept |-> srv, cli_accept |-> cli, ret |-> ret] :
          srv \in BOOLEAN, cli \in BOOLEAN, ret \in {"OK", "ENOBUFS"} }

NextSend ==
    \/ CompRegister
    \/ CompProvision(dev_primary_addr)
    \/ CompUnprovision
    \/ \E model \in SendModels, ctx \in SendCtx, agg \in SendAgg : ModelSend(model, ctx, agg)

SpecSend == Init /\ [][NextSend]_vars

\* registration and what follows it: an initialiser may fail at any model, and the node is
\* then provisioned, configured, stored, loaded, suspended and unprovisioned
NextInit ==
    \/ \E call \in StreamExtendCalls : Extend(call[1], call[2])
    \/ CompRegister
    \/ \E failing \in Models : CompRegisterFailed(failing)
    \/ \E addr \in ProvAddrs : CompProvision(addr)
    \/ CompUnprovision
    \/ ModBind(PubModel, 3)
    \/ \E flag \in PendingFlags : StoreSchedule(PubModel, flag)
    \/ PendingStore({})
    \/ SettingsLoad
    \/ Suspend

SpecInit == Init /\ [][NextInit]_vars

(***************************************************************************)
(* The relation graph: extension rings and correspondence groups           *)
(***************************************************************************)
\* the models a walk along the next links from `it` visits, `seen` being those visited so far
RECURSIVE FollowNext(_, _)
FollowNext(it, seen) ==
    IF it = NULL \/ it \in seen THEN seen ELSE FollowNext(next[it], seen \cup {it})

\* the models reached from a by following the next links (a itself included)
ReachedFrom(a) == FollowNext(a, {})

\* the models of a sequence
Visited(walk) == {walk[i] : i \in 1..Len(walk)}

\* C39: after any sequence of extend calls the next links form closed cycles only: from
\* every model that is linked, following next comes back to the model, and every model
\* reached on the way reaches the model again; the extension walk started at a model
\* terminates and visits the model first and every model of its cycle exactly once.
C39_NextLinksAreClosedCycles ==
    \A m \in Models :
        /\ next[m] # NULL => m \in ReachedFrom(next[m])
        /\ \A r \in ReachedFrom(m) : m \in ReachedFrom(r)
        /\ Head(bt_mesh_model_extensions_walk(m)) = m
        /\ Visited(bt_mesh_model_extensions_walk(m)) = ReachedFrom(m)
        /\ Len(bt_mesh_model_extensions_walk(m)) = Cardinality(ReachedFrom(m))

\* four extend calls have made one cycle of five models, and the walk from a model of
\* element 4 went through all of them
C39_FiveModelCycleWalked ==
    /\ last_op.op = "extend"
    /\ Len(bt_mesh_model_extensions_walk(M(4, 0))) = 5
    /\ M(0, 0) \in Visited(bt_mesh_model_extensions_walk(M(4, 0)))

\* C1: after any sequence of extend calls, repeated pairs included, every pair (A, B) ever
\* passed to extend has B reachable from A along the next links and B flagged EXTENDED
C1_ExtendedPairsShareRing ==
    \A c \in ext_calls : c[2] \in ReachedFrom(c[1]) /\ "EXTENDED" \in flags[c[2]]

\* C2: an extend call with a pair that was passed before changes no next link and no
\* record of the relation table
C2_ReExtendIsNoOp ==
    [][(last_op'.op = "extend" /\ <<last_op'.a, last_op'.b>> \in ext_calls)
          => (next' = next /\ mod_rel_list' = mod_rel_list)]_vars

\* the records of the relation table that are correspondences
CorRecords == {i \in MOD_REL_LIST_FOR_EACH : mod_rel_list[i].type < RELATION_TYPE_EXT}

\* the two model slots a record relates
RelEnds(i) ==
    { <<mod_rel_list[i].elem_base, mod_rel_list[i].idx_base>>,
      <<mod_rel_list[i].elem_ext, mod_rel_list[i].idx_ext>> }

\* the slots joined to those of `group` by chains of correspondence records
RECURSIVE CorComponent(_)
CorComponent(group) ==
    LET more == UNION {RelEnds(i) : i \in {j \in CorRecords : RelEnds(j) \cap group # {}}}
    IN  IF more \subseteq group THEN group ELSE CorComponent(group \cup more)

\* C3: two correspondence records carry the same group id exactly when their models are
\* in the same connected component of correspondence relations
C3_GroupIdIffSameComponent ==
    \A i, j \in CorRecords :
        (mod_rel_list[i].type = mod_rel_list[j].type)
            <=> (RelEnds(j) \subseteq CorComponent(RelEnds(i)))

(***************************************************************************)
(* Composition data pages                                                  *)
(***************************************************************************)
\* a full serialisation of a page: offset 0 into a buffer that is never full
FullPage(store, page) == bt_mesh_comp_data_get_page(store, Unlimited, page, 0).out

\* the bytes a full serialisation of a live page emits for the elements (page 2: records)
\* from the k-th onwards
LiveSuffix(page, k) ==
    CASE page = 0 -> Page0Elems(NewBuf(Unlimited, 0), k, TRUE).out
      [] page = 1 -> Page1Elems(NewBuf(Unlimited, 0), k, TRUE).out
      [] page = 2 -> Page2Records(NewBuf(Unlimited, 0), k + 1, TRUE).out

LiveCount(page) == IF page = 2 THEN record_cnt ELSE elem_count

\* the lengths at which a live page may be cut without splitting an element: after the
\* fixed header (page 0) and after every element
LiveCuts(page) ==
    LET full == current_page_contents(NewBuf(Unlimited, 0), "COMP", page, TRUE).w.out
    IN  {Len(full) - Len(LiveSuffix(page, k)) : k \in 0..LiveCount(page)}

\* C4: the size reported for a page is the number of bytes a full serialisation of the
\* page produces (the Status of a whole read carries both)
C4_PageSizeIsSerializedLength ==
    (/\ last_op.op = "large_comp_data_get"
     /\ last_op.ret = "OK"
     /\ last_op.offset = 0
     /\ last_op.room = FullRoom)
        => last_op.total = Len(last_op.out)

\* C5: a read that starts at any offset of a page and goes on until a Status carries no
\* bytes has collected the bytes of the full page from that offset to its end
C5_ChunksRebuildPage ==
    rd.done => rd.acc = Drop(FullPage(settings, rd.page), rd.start)

\* the extension records of mod and the relative element offset each one encodes
ExtRecordsOf(mod) ==
    {i \in MOD_REL_LIST_FOR_EACH :
        /\ IS_MOD_EXTENSION(mod, i, get_sig_offset(mod))
        /\ mod_rel_list[i].type = RELATION_TYPE_EXT}

RelOffset(mod, i) == mod.elem - mod_rel_list[i].elem_base

\* the page 1 model item of mod as a full serialisation emits it
ModelItem(mod) == Page1ModelItem(NewBuf(Unlimited, 0), mod).out

\* C6: in the page 1 a read returns, every model item has one format: the long-format
\* bit is clear and every entry is one byte iff the model has fewer than 32 extensions
\* and all of their relative offsets are in -4..3; otherwise the bit is set and every
\* entry is two bytes
C6_ItemHasOneFormat ==
    (last_op.op = "large_comp_data_get" /\ last_op.page = 1 /\ last_op.offset = 0)
        => \A mod \in Models :
               LET item == ModelItem(mod)
                   n == Cardinality(ExtRecordsOf(mod))
                   short == n < 32 /\ \A i \in ExtRecordsOf(mod) : RelOffset(mod, i) \in -4..3
                   cor == item[1] % 2
                   long_bit == (item[1] \div 2) % 2
                   entry_bytes == Len(item) - 1 - cor
               IN  IF short THEN long_bit = 0 /\ entry_bytes = n
                   ELSE long_bit = 1 /\ entry_bytes = 2 * n

(***************************************************************************)
(* Whole-element reads and the high pages                                  *)
(***************************************************************************)
\* the record kept for a high page (none: the empty sequence)
StoredRecord(page) ==
    IF stored_page_path("COMP", page) = "" THEN << >>
    ELSE settings[stored_page_path("COMP", page)]

\* the lengths at which a stored page may be cut without splitting an element,
\* `at` being the length of the part of `blob` already walked
RECURSIVE StoredCutsFrom(_, _, _)
StoredCutsFrom(blob, at, page) ==
    LET size == next_elem_size(Drop(blob, at), page)
    IN  IF size = 0 \/ at + size > Len(blob) THEN {at}
        ELSE {at} \cup StoredCutsFrom(blob, at + size, page)

StoredCuts(blob, page) == StoredCutsFrom(blob, IF page = 128 THEN 10 ELSE 0, page)

Max(S) == CHOOSE x \in S : \A y \in S : y <= x

\* C8: a read of whole elements (offset 0) of a live page, or of a high page that has a
\* stored page, returns the page cut at the last element boundary (page 0 and 128: or
\* the end of the fixed header) that fits in the buffer together with a 4-byte MIC
C8_WholeElementsWithMic ==
    (/\ last_op.op = "get_elems"
     /\ last_op.ret = "OK"
     /\ last_op.page >= 128 => Len(StoredRecord(last_op.page)) > 1)
        => LET stored == last_op.page >= 128
               full == IF stored THEN StoredRecord(last_op.page)
                       ELSE FullPage(settings, last_op.page)
               cuts == IF stored THEN StoredCuts(full, last_op.page)
                       ELSE LiveCuts(last_op.page)
               fit == {c \in cuts : c + BT_MESH_MIC_SHORT <= last_op.room}
           IN  fit # {} => last_op.out = SubSeq(full, 1, Max(fit))

\* the last bt_mesh_comp_data_set(128, ...) was given the bytes of the live page 0
Staged128EqualsPage0 == last_set[128].called /\ last_set[128].equal

C10_HighPageSize ==
    (last_op.op = "page_size" /\ last_op.page >= 128)
        => LET len == Len(StoredRecord(last_op.page))
           IN  last_op.size = IF len = 1 THEN 0
                              ELSE IF len > 1 THEN len
                              ELSE current_page_size("COMP", last_op.page % 128)

\* C10, its case reached: the size of page 128 is asked while the sentinel is kept for it
C10_SentinelSizeAsked ==
    /\ last_op.op = "page_size"
    /\ last_op.page = 128
    /\ StoredRecord(128) = <<0>>
    /\ last_op.size = 0
    /\ current_page_size("COMP", 0) > 0

\* C10 as stated: the size of a page >= 128 is the length of the stored record when one
\* that is not the sentinel exists, and the live size of page % 128 in every other case
C10_SentinelFallsBackToLive ==
    (last_op.op = "page_size" /\ last_op.page >= 128)
        => LET rec == StoredRecord(last_op.page)
           IN  last_op.size = IF rec # << >> /\ rec # <<0>> THEN Len(rec)
                              ELSE current_page_size("COMP", last_op.page % 128)

\* a record in the format of page 0: a 10-byte header, then whole element blocks up to
\* the last byte
IsPage0Format(blob) == Len(blob) >= 10 /\ Max(StoredCuts(blob, 128)) = Len(blob)

\* the number of element blocks of a record in the format of page 0
Page0FormatElems(blob) == Cardinality(StoredCuts(blob, 128)) - 1

\* C11: bt_mesh_comp_128_elem_count() returns the current element count when no record
\* is kept for page 128, and the number k of element blocks when the record kept is a
\* 10-byte header followed by k element blocks
C11_ElemCountOfStoredPage ==
    (last_op.op = "elem_count")
        => /\ StoredRecord(128) = << >> => last_op.ret = elem_count
           /\ IsPage0Format(StoredRecord(128))
                  => last_op.ret = Page0FormatElems(StoredRecord(128))

(***************************************************************************)
(* Message dispatch                                                        *)
(***************************************************************************)
\* the last operation was a message whose opcode decoded
Dispatched == last_op.op = "recv" /\ get_opcode(last_op.data).err = "OK"

NonUnicastRecv == Dispatched /\ ~BT_MESH_ADDR_IS_UNICAST(last_op.ctx.recv_dst)

UnicastRecv == Dispatched /\ BT_MESH_ADDR_IS_UNICAST(last_op.ctx.recv_dst)

SomeElemSucceeded == \E i \in 1..Len(last_op.elems) : last_op.elems[i].status = "SUCCESS"

\* C12: a message to a destination that is not unicast is delivered to every element in
\* index order, and the status returned is SUCCESS when some element succeeded, otherwise
\* the status of the last element that did not succeed.
C12_AggregateStatus ==
    NonUnicastRecv
        => /\ [i \in 1..Len(last_op.elems) |-> last_op.elems[i].index]
                  = [i \in 1..elem_count |-> i - 1]
           /\ last_op.status = IF SomeElemSucceeded THEN "SUCCESS"
                               ELSE last_op.elems[elem_count].status


\* the element a unicast destination names, counted from the primary address
UnicastIndex == last_op.ctx.recv_dst - dev_primary_addr

\* C13: a message to a unicast destination invokes at most one handler, and only on the
\* element at index dst - primary, whose address is dst; when the index is out of range
\* the status is INVALID_ADDRESS and no handler is invoked.
C13_UnicastOneElement ==
    UnicastRecv
        => /\ Len(last_op.invoked) <= 1
           /\ \A i \in 1..Len(last_op.invoked) :
                  /\ last_op.invoked[i].elem = UnicastIndex
                  /\ ElemAddr(last_op.invoked[i].elem) = last_op.ctx.recv_dst
           /\ UnicastIndex \notin 0..(elem_count - 1)
                  => last_op.status = "INVALID_ADDRESS" /\ last_op.invoked = << >>

\* a unicast message reached the handler of a model on element 4
C13_UnicastHandled ==
    /\ UnicastRecv
    /\ last_op.invoked = <<M(4, 0)>>
    /\ last_op.ctx.recv_dst = ElemAddr(4)

\* the model element e dispatches the last message to, and the length its table declares
DispatchedOp(e) == find_op(e, get_opcode(last_op.data).opcode)

Payload == get_opcode(last_op.data).payload

LengthOk(len) == IF len >= 0 THEN Len(Payload) >= len ELSE Len(Payload) = -len

\* the first of the four checks that fails, or "PASS"
FirstFailing(op) ==
    IF op.model = NULL THEN "WRONG_OPCODE"
    ELSE IF ~bt_mesh_model_has_key(op.model, last_op.ctx.app_idx) THEN "WRONG_KEY"
    ELSE IF ~model_has_dst(op.model, last_op.ctx.recv_dst, last_op.ctx.uuid)
         THEN "INVALID_ADDRESS"
    ELSE IF ~LengthOk(op.len) THEN "MESSAGE_NOT_UNDERSTOOD"
    ELSE "PASS"

Invoked == {last_op.invoked[i] : i \in 1..Len(last_op.invoked)}

\* C14: the delivery to an element returns the status of the first check that fails, in
\* the order opcode, key, destination, length; the handler is invoked exactly when all four
\* pass; a model bound only to key 7 that receives app_idx 3 yields WRONG_KEY.
C14_CheckOrder ==
    Dispatched
        => \A i \in 1..Len(last_op.elems) :
               /\ FirstFailing(DispatchedOp(last_op.elems[i].index)) # "PASS"
                      => last_op.elems[i].status
                             = FirstFailing(DispatchedOp(last_op.elems[i].index))
               /\ FirstFailing(DispatchedOp(last_op.elems[i].index)) = "PASS"
                      <=> \E m \in Invoked : m.elem = last_op.elems[i].index
               /\ \A m \in Invoked : m.elem = last_op.elems[i].index
                      => m = DispatchedOp(last_op.elems[i].index).model
               /\ ( /\ DispatchedOp(last_op.elems[i].index).model # NULL
                    /\ ModelKeys(DispatchedOp(last_op.elems[i].index).model) = {7}
                    /\ last_op.ctx.app_idx = 3 )
                      => last_op.elems[i].status = "WRONG_KEY"

\* M(4, 0), bound to key 7 only, got a message under key 3 that is too short and sent to a
\* group it does not subscribe to
C14_WrongKeyFirst ==
    /\ NonUnicastRecv
    /\ last_op.ctx.app_idx = 3
    /\ last_op.ctx.recv_dst = GroupAddr
    /\ last_op.data = <<130, 2, 1>>
    /\ groups[M(4, 0)] = {} /\ groups[M(4, 1)] = {}
    /\ last_op.elems[5].status = "WRONG_KEY"

\* the positions, in the model list chosen by the length of the opcode, of the models of
\* element e whose opcode table contains the opcode
Declaring(e, opcode) ==
    {i \in 1..Len(OpModels(e, opcode)) :
         \E j \in 1..Len(ModelOps(OpModels(e, opcode)[i])) :
             ModelOps(OpModels(e, opcode)[i])[j].opcode = opcode}

\* the lowest-indexed of them, with the length of its first entry for the opcode
LowestDeclaring(e, opcode) ==
    IF Declaring(e, opcode) = {} THEN NoOp
    ELSE LET i == CHOOSE k \in Declaring(e, opcode) : \A o \in Declaring(e, opcode) : k <= o
             m == OpModels(e, opcode)[i]
             j == CHOOSE k \in 1..Len(ModelOps(m)) :
                      /\ ModelOps(m)[k].opcode = opcode
                      /\ \A o \in 1..(k - 1) : ModelOps(m)[o].opcode # opcode
         IN  [model |-> m, len |-> ModelOps(m)[j].len]

\* C36: the only handler an element considers for a message is that of the lowest-indexed
\* model, in the list chosen by the length of the opcode, whose table contains the opcode;
\* when that model fails the key, destination or length check, no model of the element is
\* invoked, also when a later model declares the same opcode and would pass.
C36_FirstMatchWins ==
    Dispatched
        => \A i \in 1..Len(last_op.elems) :
               /\ \A m \in Invoked : m.elem = last_op.elems[i].index
                      => m = LowestDeclaring(last_op.elems[i].index,
                                             get_opcode(last_op.data).opcode).model
               /\ FirstFailing(LowestDeclaring(last_op.elems[i].index,
                                               get_opcode(last_op.data).opcode)) # "PASS"
                      => /\ \A m \in Invoked : m.elem # last_op.elems[i].index
                         /\ last_op.elems[i].status
                                = FirstFailing(LowestDeclaring(
                                      last_op.elems[i].index,
                                      get_opcode(last_op.data).opcode))

\* element 4 got opcode 0x8202 under key 3: its first model, bound to key 7 only, is the
\* one considered, and the second model, which declares the opcode and passes every check,
\* is not invoked
C36_LaterModelNotTried ==
    /\ Dispatched
    /\ last_op.ctx.app_idx = 3
    /\ last_op.ctx.recv_dst = ElemAddr(4)
    /\ last_op.data = <<130, 2, 1, 0>>
    /\ Declaring(4, 33282) = {1, 2}
    /\ ModelRecv(last_op.ctx, Payload, FoundOp(<<M(4, 1)>>, 33282)).invoked = <<M(4, 1)>>
    /\ last_op.status = "WRONG_KEY"
    /\ last_op.invoked = << >>

\* C37: every call of element_model_recv of a delivery returns with the read cursor and the
\* length of the receive buffer as they were after the opcode was taken, whatever the
\* handler pulled and whether it succeeded or failed, so the handler of every element sees
\* the whole payload of the message.
C37_BufferRestoredPerElement ==
    Dispatched
        => \A i \in 1..Len(last_op.elems) :
               /\ last_op.elems[i].seen = Payload
               /\ last_op.elems[i].buf = [data |-> 0, len |-> Len(Payload)]

\* a group message whose first parameter the handlers refuse: the handler of element 1
\* pulled an octet and failed, and the handler of element 4 still got both parameters
C37_FailedHandlerThenNextElement ==
    /\ NonUnicastRecv
    /\ last_op.data = <<130, 2, 9, 0>>
    /\ last_op.invoked = <<M(1, 0), M(4, 0)>>
    /\ last_op.elems[2].status = "MESSAGE_NOT_UNDERSTOOD"
    /\ op_func(M(1, 0), last_op.elems[1].buf, last_op.elems[2].seen) = [data |-> 1, len |-> 1]
    /\ last_op.elems[5].seen = <<9, 0>>

\* the first octet announces an opcode of two or of three octets
TwoOctetOpcode(data) == data[1] \in 128..191

ThreeOctetOpcode(data) == data[1] \in 192..255

Malformed(data) ==
    \/ data[1] = 127
    \/ TwoOctetOpcode(data) /\ Len(data) < 2
    \/ ThreeOctetOpcode(data) /\ Len(data) < 3

\* C15: a message that starts with 0x7F, or that is shorter than the opcode its first
\* octet announces, is rejected with WRONG_OPCODE and no handler is invoked.
C15_MalformedOpcodeRejected ==
    (last_op.op = "recv" /\ Malformed(last_op.data))
        => last_op.status = "WRONG_OPCODE" /\ last_op.invoked = << >>

\* a 3-octet opcode cut after two octets was received for a group
C15_ShortVendorOpcode ==
    /\ last_op.op = "recv"
    /\ last_op.data = <<193, 89>>
    /\ last_op.ctx.recv_dst = GroupAddr
    /\ last_op.status = "WRONG_OPCODE"

\* C16: with a raw-message callback registered, the callback is invoked exactly once for
\* every message the dispatcher decodes, whatever status the dispatch ends with, a unicast
\* destination out of the node's range included.
C16_MsgCbOncePerMessage ==
    (Dispatched /\ last_op.msg_cb) => last_op.cb = 1

\* model r holds a subscription that matches the destination of the last message
Subscribed(r) ==
    IF BT_MESH_ADDR_IS_VIRTUAL(last_op.ctx.recv_dst) THEN last_op.ctx.uuid \in uuids[r]
    ELSE last_op.ctx.recv_dst \in groups[r]

\* some model of m's ring on m's element holds a matching subscription
RingSubscribed(m) == \E r \in ReachedFrom(m) : r.elem = m.elem /\ Subscribed(r)

\* the delivery to element e got as far as the destination check
ReachedDstCheck(e) ==
    /\ DispatchedOp(e).model # NULL
    /\ bt_mesh_model_has_key(DispatchedOp(e).model, last_op.ctx.app_idx)

\* C17: for a group or virtual destination the destination check passes exactly when a
\* model of the dispatched model's ring that is on the dispatched model's element holds
\* the subscription; subscriptions of ring members on other elements do not count.
C17_RingSubscriptionSameElement ==
    ( /\ Dispatched
      /\ \/ BT_MESH_ADDR_IS_GROUP(last_op.ctx.recv_dst)
         \/ BT_MESH_ADDR_IS_VIRTUAL(last_op.ctx.recv_dst) )
        => \A i \in 1..Len(last_op.elems) :
               ReachedDstCheck(last_op.elems[i].index)
                   => ( last_op.elems[i].status # "INVALID_ADDRESS"
                            <=> RingSubscribed(DispatchedOp(last_op.elems[i].index).model) )

\* M(4, 1) alone subscribes to the group, in one ring with M(4, 0) and M(1, 0): the message
\* passes on element 4 through M(4, 0) and is refused on element 1
C17_SubscriptionOfRingMember ==
    /\ NonUnicastRecv
    /\ last_op.ctx.recv_dst = GroupAddr
    /\ last_op.ctx.app_idx = 7
    /\ ReachedFrom(M(1, 0)) = {M(1, 0), M(4, 0), M(4, 1)}
    /\ groups[M(4, 1)] = {GroupAddr} /\ groups[M(4, 0)] = {} /\ groups[M(1, 0)] = {}
    /\ last_op.invoked = <<M(4, 0)>>
    /\ last_op.elems[2].status = "INVALID_ADDRESS"

\* the fixed group addresses of the mesh address space, all-nodes included
FixedGroupDst == last_op.ctx.recv_dst \in 65280..65535

\* C18: a message to a fixed group address passes the destination check of every model
\* on the primary element whatever it subscribes to, and that of a model on another
\* element only if the model or a member of its ring on its element subscribes to it.
C18_FixedGroupPrimaryAlways ==
    (Dispatched /\ FixedGroupDst)
        => \A i \in 1..Len(last_op.elems) :
               ReachedDstCheck(last_op.elems[i].index)
                   => IF last_op.elems[i].index = 0
                      THEN last_op.elems[i].status # "INVALID_ADDRESS"
                      ELSE last_op.elems[i].status # "INVALID_ADDRESS"
                               => RingSubscribed(DispatchedOp(last_op.elems[i].index).model)

\* with no subscription anywhere, a fixed group message reaches the vendor model of the
\* primary element
C18_PrimaryTakesFixedGroup ==
    /\ NonUnicastRecv
    /\ last_op.ctx.recv_dst = FixedGroupAddr
    /\ n_subs = 0
    /\ last_op.invoked = <<V(0, 0)>>

(***************************************************************************)
(* Publication                                                             *)
(***************************************************************************)
\* the series that ended last was started by a publish call and ended with the start of
\* the next period, with no error of the update callback or of the transport
PublishSeriesDone ==
    /\ pubh.done.kind = "publish"
    /\ pubh.done.ended_by = "period"
    /\ ~pubh.done.update_err
    /\ ~pubh.done.send_err

PubCount == BT_MESH_PUB_TRANSMIT_COUNT(pub.retransmit)

PubInterval == BT_MESH_PUB_TRANSMIT_INT(pub.retransmit)

PeriodFits == bt_mesh_model_pub_period_get(pub) >= (PubCount + 1) * PubInterval

\* c + 1 transmissions, the k-th of them k intervals after the start
OnSchedule(series) ==
    series.sent = [k \in 1..(PubCount + 1) |-> series.start + (k - 1) * PubInterval]

NextPeriodOnTime(series) == series.next = series.start + bt_mesh_model_pub_period_get(pub)

\* C19 as claimed: after publish on a model with retransmit count c, interval i and period
\* P >= (c + 1) * i, with no update or transport error, c + 1 SDUs are handed to the
\* transport at start + k * i for k = 0..c and the next period starts at start + P.
C19_SeriesOnSchedule ==
    (PublishSeriesDone /\ PeriodFits)
        => OnSchedule(pubh.done) /\ NextPeriodOnTime(pubh.done)

\* C19, amended: the same, for a series in which every report of the transport that an SDU
\* is sent arrives before the next transmission, or the next period, is due.
C19_SeriesOnScheduleWhenSentInTime ==
    (PublishSeriesDone /\ PeriodFits /\ ~pubh.done.late)
        => OnSchedule(pubh.done) /\ NextPeriodOnTime(pubh.done)

\* period 0x41, retransmit 0x2A: a series of three that a publish call started has ended
\* on schedule, and the next period has begun one second after the call
C19_ThreeSentThenPeriod ==
    /\ PublishSeriesDone
    /\ ~pubh.done.late
    /\ pub.period = 65 /\ pub.retransmit = 42
    /\ Len(pubh.done.sent) = 3
    /\ pubh.done.sent[3] = pubh.done.start + 600
    /\ pubh.done.next = pubh.done.start + 1000

\* the series that ended last was started by a publish call made while an earlier series
\* had transmissions left (count > 0), and ended with the start of the next period
OverwritingSeriesDone ==
    /\ pubh.done.kind = "publish"
    /\ pubh.done.during
    /\ pubh.done.ended_by = "period"

PeriodOff == pub.addr # BT_MESH_ADDR_UNASSIGNED /\ bt_mesh_model_pub_period_get(pub) = 0

C24_InactiveFiringDoesNothing ==
    [][(last_op'.op = "mod_publish" /\ (pub.addr = BT_MESH_ADDR_UNASSIGNED \/ suspended))
          => (pub' = pub /\ tx' = tx /\ pubh' = pubh /\ timer' = NoTimer)]_vars

\* the timer fired on a suspended node in the middle of a series
C24_FiredWhileSuspended ==
    /\ last_op.op = "mod_publish" /\ last_op.abandoned
    /\ suspended /\ pub.addr # BT_MESH_ADDR_UNASSIGNED /\ pub.count > 0

\* what the claim has publish return for a model and a message length
ClaimedPublishStatus(mod, addr, msg_len) ==
    IF mod # PubModel THEN "ENOTSUP"
    ELSE IF addr = BT_MESH_ADDR_UNASSIGNED THEN "EADDRNOTAVAIL"
    ELSE IF msg_len = NoMsg \/ msg_len = 0 THEN "EINVAL"
    ELSE IF msg_len + BT_MESH_MIC_SHORT > BT_MESH_TX_SDU_MAX THEN "EMSGSIZE"
    ELSE "OK"

\* C25: publish() returns NotSupported for a model without publication state,
\* AddressUnassigned for an unassigned publication address, InvalidArgument for a missing
\* or empty message and MessageTooLarge when msg.len + MIC > MAX_SDU; in each of these
\* cases the remaining-retransmit count, period_start and the timer are unchanged.
C25_InvalidPublishRejected ==
    [][last_op'.op = "publish" =>
          /\ last_op'.ret = ClaimedPublishStatus(last_op'.mod, pub.addr, last_op'.msg_len)
          /\ last_op'.ret # "OK" =>
                 /\ pub'.count = pub.count
                 /\ pub'.period_start = pub.period_start
                 /\ timer' = timer]_vars

\* a message that is too long was refused while a series was in progress
C25_TooLargeRefusedDuringSeries ==
    /\ last_op.op = "publish" /\ last_op.ret = "EMSGSIZE"
    /\ pub.count > 0 /\ timer # NoTimer

\* the unit the bits 6-7 of the period byte select, in ms
PeriodUnit(period) == <<100, 1000, 10000, 600000>>[(period \div 64) + 1]

\* the period byte without its unit, times the unit
PeriodBase(period) == (period % 64) * PeriodUnit(period)

\* C22: the publication period in ms is (period byte & 0x3F) times the unit selected by the
\* bits 6-7 (100, 1000, 10000, 600000); with fast_period set and that base > 0 it is
\* max(base >> period_div, 100), and a base of 0 stays 0 for every period_div in 0..15.
C22_PeriodOfPeriodByte ==
    last_op.op = "period_get" =>
        last_op.ret =
            IF last_op.fast_period /\ PeriodBase(last_op.period) > 0
            THEN IF PeriodBase(last_op.period) \div (2 ^ last_op.period_div) > 100
                 THEN PeriodBase(last_op.period) \div (2 ^ last_op.period_div)
                 ELSE 100
            ELSE PeriodBase(last_op.period)

\* a fast period of one second divided by 2^15: the floor of 100 ms is what is returned
C22_FloorApplied ==
    /\ last_op.op = "period_get"
    /\ last_op.fast_period /\ last_op.period = 65 /\ last_op.period_div = 15
    /\ last_op.ret = 100

\* mod_publish has just started a period and the update callback failed
PeriodStartFailed ==
    /\ last_op.op = "mod_publish"
    /\ last_op.first /\ last_op.update_failed
    /\ bt_mesh_model_pub_period_get(pub) > 0

\* C23: when the update callback fails at the start of a period and the period is > 0, no
\* SDU is handed to the transport for that period, the count of remaining retransmissions
\* is 0 and the timer is left scheduled for the next period.
C23_FailedUpdateSkipsPeriod ==
    PeriodStartFailed =>
        /\ pubh.cur.kind = "period" /\ pubh.cur.start = now /\ pubh.cur.sent = << >>
        /\ pub.count = 0
        /\ timer = now + bt_mesh_model_pub_period_get(pub)

\* the update failed at the start of a period of a model that retransmits twice
C23_PeriodSkipped == PeriodStartFailed /\ PubCount = 2

\* a step of mod_publish that starts a period of a delayable publication
DelayableFirstFiring ==
    /\ last_op'.op = "mod_publish"
    /\ ~last_op'.abandoned
    /\ last_op'.first
    /\ pub.delayable

\* what is claimed of such a step: no SDU, and the timer 20 + (r mod 30) ms ahead
NothingSentTimerDelayed ==
    /\ tx' = tx
    /\ pubh'.cur.sent = << >>
    /\ last_op'.delayed
    /\ timer' = now' + 20 + (last_op'.num % 30)
    /\ timer' - now' \in 20..49

\* a period of a delayable publication has ended with the start of the next period
DelayablePeriodDone ==
    /\ pub.delayable
    /\ pubh.done.kind = "period"
    /\ pubh.done.ended_by = "period"

C38_PeriodStartIsFiringTime ==
    [][(last_op'.op = "mod_publish" /\ ~last_op'.abandoned /\ last_op'.first) =>
           pub'.period_start = now']_vars

\* the delay claimed for a call of next_period while retransmissions remain: n messages
\* of the series are out, interval apart
ClaimedRetransmitDelay(p, t) ==
    LET interval == BT_MESH_PUB_TRANSMIT_INT(p.retransmit)
        n == BT_MESH_PUB_MSG_NUM(p)
        elapsed == t - p.period_start
    IN  IF elapsed < interval * n THEN interval * n - elapsed ELSE interval

\* next_period is called by publish_sent: when the transport has sent an SDU, with the
\* publication as it is, and when mod_publish could not send, with the publication as
\* mod_publish leaves it
SentStep == last_op'.op = "publish_sent"

NotSentStep == last_op'.op = "mod_publish" /\ (last_op'.update_failed \/ last_op'.send_failed)

\* C34 as stated: whenever next_period is called with retransmissions left (count > 0) it
\* returns interval * n - elapsed when elapsed is below interval * n and the interval
\* itself otherwise, a positive delay in both cases, and the timer is pending afterwards.
C34_RetransmissionsGoOn ==
    [][/\ (SentStep /\ pub.count > 0) =>
              /\ next_period(pub, now') = ClaimedRetransmitDelay(pub, now')
              /\ timer' # NoTimer
       /\ (NotSentStep /\ pub'.count > 0) =>
              /\ next_period(pub', now') = ClaimedRetransmitDelay(pub', now')
              /\ timer' # NoTimer]_vars

\* C34: whenever next_period is called with retransmissions left (count > 0) and at least
\* one message of the series out (n >= 1), it returns interval * n - elapsed when elapsed is
\* below interval * n and the interval itself otherwise, a positive delay in both cases;
\* and whenever it is called with retransmissions left the timer is pending afterwards.
C34_RetransmissionsGoOnOnceStarted ==
    [][/\ (SentStep /\ pub.count > 0) =>
              /\ BT_MESH_PUB_MSG_NUM(pub) >= 1 =>
                     next_period(pub, now') = ClaimedRetransmitDelay(pub, now')
              /\ timer' # NoTimer
       /\ (NotSentStep /\ pub'.count > 0) =>
              /\ BT_MESH_PUB_MSG_NUM(pub') >= 1 =>
                     next_period(pub', now') = ClaimedRetransmitDelay(pub', now')
              /\ timer' # NoTimer]_vars

\* an SDU took longer than the retransmit interval: publish_sent found a retransmission
\* late and set the timer one interval ahead
C34_LateRetransmissionScheduled ==
    /\ last_op.op = "publish_sent"
    /\ pub.count > 0
    /\ BT_MESH_PUB_MSG_NUM(pub) >= 1
    /\ now - pub.period_start >= BT_MESH_PUB_TRANSMIT_INT(pub.retransmit) * BT_MESH_PUB_MSG_NUM(pub)
    /\ timer = now + BT_MESH_PUB_TRANSMIT_INT(pub.retransmit)

(***************************************************************************)
(* Stored model configuration                                              *)
(***************************************************************************)
\* the section a record belongs to and the flag that marks the section
SectionOf(key) == IF key = "subv" THEN "sub" ELSE key

FlagOf(section) ==
    CASE section = "bind" -> "BIND_PENDING"
      [] section = "sub" -> "SUB_PENDING"
      [] section = "pub" -> "PUB_PENDING"
      [] section = "data" -> "DATA_PENDING"

\* the backend calls the last flush made for a section, and for one record, of a model
SectionWrites(mod, section) ==
    {i \in 1..Len(last_op.writes) :
         last_op.writes[i].mod = mod /\ SectionOf(last_op.writes[i].key) = section}

RecordWrites(mod, key) ==
    {i \in 1..Len(last_op.writes) : last_op.writes[i].mod = mod /\ last_op.writes[i].key = key}

NothingPending == \A m \in Models : flags[m] \cap PendingFlags = {}

\* C26 as stated: however often the mutators were called, a flush makes exactly one
\* backend call for every section marked, none for a section not marked, and leaves no
\* pending bit on any model.
C26_OneWritePerSection ==
    last_op.op = "flush" =>
        /\ \A m \in Models, section \in {"bind", "sub", "pub", "data"} :
               Cardinality(SectionWrites(m, section)) =
                   IF FlagOf(section) \in last_op.before[m] THEN 1 ELSE 0
        /\ NothingPending

\* C26: however often the mutators were called, a flush makes exactly one backend call
\* for every record of a section marked (the subscription section holds two records, the
\* group addresses and the virtual addresses), none for a section not marked, and leaves
\* no pending bit on any model.
C26_OneWritePerRecord ==
    last_op.op = "flush" =>
        /\ \A m \in Models, key \in {"bind", "sub", "subv", "pub", "data"} :
               Cardinality(RecordWrites(m, key)) =
                   IF FlagOf(SectionOf(key)) \in last_op.before[m] THEN 1 ELSE 0
        /\ NothingPending

\* a flush that found the bindings and the subscriptions of a model marked, saved one
\* record and deleted another
C26_FlushSavedAndDeleted ==
    /\ last_op.op = "flush"
    /\ {"BIND_PENDING", "SUB_PENDING"} \subseteq last_op.before[PubModel]
    /\ \E i \in 1..Len(last_op.writes) : last_op.writes[i].kind = "save"
    /\ \E i \in 1..Len(last_op.writes) : last_op.writes[i].kind = "delete"

\* C27: when the settings backend reports an error while a flush writes a section of a
\* model, the pending flag of that section stays set, so that the next flush writes it
\* again.
C27_FailedSectionStaysPending ==
    last_op.op = "flush" =>
        \A i \in 1..Len(last_op.writes) :
            last_op.writes[i].err =>
                FlagOf(SectionOf(last_op.writes[i].key)) \in flags[last_op.writes[i].mod]

\* C28: storing the bindings, the group subscriptions and the publication of a model,
\* loading the records into a freshly registered model and storing again writes the same
\* bytes: after a load, what a flush would write is what the backend holds.
C28_StoreLoadStore ==
    last_op.op = "load" =>
        \A m \in StoredModels :
            /\ BindValue(conf[m].keys) = mod_records[encode_mod_path(m, "bind")]
            /\ SubValue(conf[m].groups) = mod_records[encode_mod_path(m, "sub")]
            /\ PubValue(m, pub) = mod_records[encode_mod_path(m, "pub")]

\* loaded: the bindings that held an unused entry before the key 7, the subscriptions
\* likewise, and a publication
C28_LoadedWithoutTombstones ==
    /\ last_op.op = "load"
    /\ last_op.before[PubModel].keys = <<BT_MESH_KEY_UNUSED, 7>>
    /\ conf[PubModel].keys = <<7, BT_MESH_KEY_UNUSED>>
    /\ last_op.before[PubModel].groups = <<BT_MESH_ADDR_UNASSIGNED, GroupAddr + 1>>
    /\ conf[PubModel].groups = <<GroupAddr + 1, BT_MESH_ADDR_UNASSIGNED>>
    /\ pub.addr = GroupAddr /\ pub.cred = 1

(***************************************************************************)
(* Provisioning                                                            *)
(***************************************************************************)
SomeElemUnicast == \E i \in 0..(elem_count - 1) : BT_MESH_ADDR_IS_UNICAST(addrs.elem[i])

\* C29: the primary address is unassigned exactly when no element has a unicast address;
\* after provision(addr) element i has the address addr + i, and after unprovision the
\* primary address and every element address are unassigned.
C29_AddressesFollowProvisioning ==
    /\ (addrs.primary = BT_MESH_ADDR_UNASSIGNED) <=> ~SomeElemUnicast
    /\ last_op.op = "provision" =>
           \A i \in 0..(elem_count - 1) : addrs.elem[i] = last_op.addr + i
    /\ last_op.op = "unprovision" =>
           /\ addrs.primary = BT_MESH_ADDR_UNASSIGNED
           /\ \A i \in 0..(elem_count - 1) : addrs.elem[i] = BT_MESH_ADDR_UNASSIGNED

\* a provisioned node has been reset
C29_UnprovisionedAfterProvision == last_op.op = "unprovision" /\ last_op.was = 16

\* C30: provisioned or not, elem_find(addr) returns nothing or an element whose unicast
\* address is addr, and nothing for an address that is not unicast or lies outside
\* [primary, primary + elem_count).
C30_ElemFindReturnsOwner ==
    last_op.op = "elem_find" =>
        /\ last_op.ret # -1 => addrs.elem[last_op.ret] = last_op.addr
        /\ ~BT_MESH_ADDR_IS_UNICAST(last_op.addr) => last_op.ret = -1
        /\ ~(last_op.addr >= addrs.primary /\ last_op.addr < addrs.primary + elem_count)
               => last_op.ret = -1

(***************************************************************************)
(* Registration                                                            *)
(***************************************************************************)
\* C31: once bt_mesh_comp_register has succeeded, elem_idx of every model is the position
\* of the element that holds it and mod_idx is its position in the SIG or the vendor list
\* of that element, in the state register leaves and in every state a later operation
\* leaves.
C31_IndexesArePositions ==
    registered =>
        \A m \in Models : rt_idx[m] = [elem_idx |-> m.elem, mod_idx |-> m.idx]

\* registered after a failed attempt, provisioned and unprovisioned again: the vendor model
\* of element 0 and the second model of element 4 hold their own positions
C31_IndexesKeptAfterUnprovision ==
    /\ registered
    /\ last_op.op = "unprovision"
    /\ rt_idx[V(0, 0)] = [elem_idx |-> 0, mod_idx |-> 0]
    /\ rt_idx[M(4, 1)] = [elem_idx |-> 4, mod_idx |-> 1]

(***************************************************************************)
(* Models Metadata                                                         *)
(***************************************************************************)
\* C33: the Models Metadata Get handler answers every page byte with one of two pages,
\* 128 when the byte is 128 or more (high pages supported) and 0 otherwise; the Status
\* carries that page, the offset of the request unchanged and the total size of that page.
C33_MetadataPageClamped ==
    (last_op.op = "models_metadata_get" /\ last_op.ret = "OK") =>
        /\ last_op.page = (IF last_op.req_page >= 128 THEN 128 ELSE 0)
        /\ last_op.offset = last_op.req_offset
        /\ last_op.total = page_size_get(settings, "METADATA", last_op.page)

\* page 200 was asked for at offset 3 and answered with the staged page 128
C33_HighPageAnsweredFrom128 ==
    /\ last_op.op = "models_metadata_get"
    /\ last_op.req_page = 200 /\ last_op.req_offset = 3
    /\ last_op.page = 128 /\ last_op.total = 6
    /\ last_op.out = <<4, 0, 1>>

\* C40: a read of a Models Metadata page appends no more bytes than the tailroom of the
\* buffer at the call, and every count byte that is patched afterwards is one of the bytes
\* the call appended, for every offset and tailroom.
C40_MetadataWritesInsideAppended ==
    last_op.op = "models_metadata_get"
        => Len(last_op.out) <= last_op.room /\ last_op.wild = {}

(***************************************************************************)
(* Sending                                                                 *)
(***************************************************************************)
AggAccepted == last_op.agg.srv_accept \/ last_op.agg.cli_accept

\* C32: bt_mesh_model_send on a message no op-aggregator accepts returns -EINVAL when the
\* model is not bound to ctx.app_idx and hands the message neither to the transport nor to
\* the delayable-message manager; a message an op-aggregator accepts goes to that
\* aggregator, whose result is returned, whether the model is bound to the key or not.
C32_SendChecksKeyAfterAggregators ==
    last_op.op = "send" =>
        /\ (~AggAccepted /\ ~bt_mesh_model_has_key(last_op.model, last_op.ctx.app_idx)) =>
               (last_op.ret = "EINVAL" /\ last_op.sink = "none")
        /\ AggAccepted =>
               /\ last_op.sink = IF last_op.agg.srv_accept THEN "op_agg_srv" ELSE "op_agg_cli"
               /\ last_op.ret = last_op.agg.ret

\* the aggregation server took the message of a model that is not bound to the key
C32_AggregatedWithoutKey ==
    /\ last_op.op = "send"
    /\ last_op.agg.srv_accept
    /\ ~bt_mesh_model_has_key(last_op.model, last_op.ctx.app_idx)
    /\ last_op.sink = "op_agg_srv"

\* refused for the key: no aggregator took the message
C32_RefusedForKey ==
    /\ last_op.op = "send"
    /\ ~AggAccepted
    /\ last_op.ret = "EINVAL"
    /\ last_op.ctx.rnd_delay

(***************************************************************************)
(* Page 1 extension entries                                                *)
(***************************************************************************)
\* a whole read of the live page 1 has just been answered
WholePage1Read ==
    /\ last_op.op = "large_comp_data_get"
    /\ last_op.ret = "OK"
    /\ last_op.page = 1
    /\ last_op.offset = 0
    /\ last_op.room = FullRoom

\* the place of mod among the models of its element, SIG models first
ModelPlace(mod) == IF mod.vnd THEN model_count(mod.elem) + mod.idx + 1 ELSE mod.idx + 1

RECURSIVE ItemsLength(_, _)
ItemsLength(e, j) ==
    IF j = 0 THEN 0 ELSE Len(ModelItem(ElemModels(e)[j])) + ItemsLength(e, j - 1)

\* the number of bytes of a full page 1 that come before the model item of mod
ItemStart(mod) ==
    (Len(LiveSuffix(1, 0)) - Len(LiveSuffix(1, mod.elem)))
    + 2 + ItemsLength(mod.elem, ModelPlace(mod) - 1)

\* the number of bytes of the model item of mod that come before the entry of record i:
\* the header, the correspondence id if any, and the entries of the earlier records
EntryStart(mod, i) ==
    LET earlier == {j \in ExtRecordsOf(mod) : j < i}
        long == {j \in earlier : RelOffset(mod, j) \notin -4..3}
    IN  1 + (ModelItem(mod)[1] % 2) + Cardinality(earlier) + Cardinality(long)

EntryByte(mod, i, n) == last_op.out[ItemStart(mod) + EntryStart(mod, i) + n]

\* C7: in the page 1 a read returns, the short entry for a base model k elements earlier
\* (1 <= k <= 4) at base index m is the byte (m << 3) | (8 - k): a base 3 elements
\* earlier at index 0 gives the entry 0x05
C7_EntryHoldsEightLessK ==
    WholePage1Read
        => \A mod \in Models : \A i \in ExtRecordsOf(mod) :
               LET k == RelOffset(mod, i)
                   m == mod_rel_list[i].idx_base
               IN  k \in 1..4 => EntryByte(mod, i, 1) = (m * 8) + (8 - k)

====
